---- MODULE Spec2Model ----
(***************************************************************************)
(* Model of the view/input core of helix-term:                             *)
(*   - ui/popup.rs : Popup<T> (size negotiation, anchoring, scrolling)     *)
(*   - ui/editor.rs: EditorView (modal key dispatch, mouse routing)        *)
(* Each method is an operator from the receiver's state (a record) and the *)
(* call's inputs to the state after the call; each action applies one      *)
(* method to the state variables.                                          *)
(***************************************************************************)
EXTENDS Integers, Sequences, FiniteSets, TLC

VARIABLES
    popup,        \* the Popup's fields
    popup_call,   \* the last call made on the popup
    popup_layer,  \* whether the popup is still a layer of the compositor
    editor_view,  \* the EditorView, its Editor and the last event's Context
    key_event,    \* the last event handled by the EditorView
    digit_run,    \* the digits typed in a row into the count
    tree,         \* the Editor's views: focus, scroll offsets, selections
    mouse_event,  \* the last mouse event handled by the EditorView
    frame         \* the last call of the renderer: its inputs and its output

popup_vars == <<popup, popup_call, popup_layer>>

editor_vars == <<editor_view, key_event, digit_run>>

screen_vars == <<tree, mouse_event, frame>>

vars == <<popup, popup_call, popup_layer, editor_view, key_event, digit_run,
          tree, mouse_event, frame>>

(***************************************************************************)
(* Integer helpers of the Rust standard library.                           *)
(***************************************************************************)
Min(a, b) == IF a <= b THEN a ELSE b

Max(a, b) == IF a >= b THEN a ELSE b

\* uN::saturating_sub
saturating_sub(a, b) == IF a >= b THEN a - b ELSE 0

\* a let binding: the value is computed once and named in the body
With(value, Body(_)) == Body(value)

(***************************************************************************)
(* Bounds of the popup model.  A size is drawn from a small range plus the *)
(* value just above the popup's cap.  The two axes are computed            *)
(* independently, so each specification varies one axis over its whole     *)
(* range: PopupSpec the heights (sizes, scrolling), PlacementSpec the      *)
(* widths (horizontal placement).                                          *)
(***************************************************************************)
MaxViewW == 2

MaxViewH == 4

MaxChildW == 2

MaxChildH == 3

MaxMargin == 1

MaxAnchorRow == 1

MaxAnchorCol == 2

MaxScrollArg == 2

\* the largest count typed, the most digits typed in a row, and the most
\* keys typed during one stay in Insert mode
MaxCount == 123

MaxDigits == 3

MaxKeys == 2

\* popup.rs:136
POPUP_MAX_WIDTH == 120

\* popup.rs:137
POPUP_MAX_HEIGHT == 26

WideW == POPUP_MAX_WIDTH + 1

TallH == POPUP_MAX_HEIGHT + 3

ViewWidths == (0 .. MaxViewW) \cup {WideW}

ViewHeights == {0} \cup (3 .. MaxViewH) \cup {TallH}

ChildWidths == (0 .. MaxChildW) \cup {WideW}

ChildHeights == (0 .. MaxChildH) \cup {POPUP_MAX_HEIGHT + 2}

\* PopupSpec: every height, a wide viewport, a narrow child
VViewports == [width : {WideW}, height : ViewHeights]

VChildSizes == {1} \X ChildHeights

\* PlacementSpec: every width, an empty and a tall viewport, a low and a high child
HViewports == [width : ViewWidths, height : {0, TallH}]

HChildSizes == ChildWidths \X {1, POPUP_MAX_HEIGHT + 2}

\* Option<T>: None is the empty sequence, Some(x) the sequence of x alone
None == <<>>

Some(x) == <<x>>

\* Option::unwrap_or
unwrap_or(opt, default) == IF opt = None THEN default ELSE opt[1]

\* editor.cursor().0 : the cursor position, if the editor has one
VCursors == {Some([row |-> r, col |-> 0]) : r \in 0 .. MaxAnchorRow} \cup {None}

HCursors == {Some([row |-> 0, col |-> c]) : c \in 0 .. MaxAnchorCol} \cup {None}

\* Position::default()
Position_default == [row |-> 0, col |-> 0]

(***************************************************************************)
(* Popup<T>                                                                *)
(***************************************************************************)
Popup_new(margin) ==
    [ position   |-> None,
      margin     |-> margin,
      size       |-> <<0, 0>>,
      child_size |-> <<0, 0>>,
      scroll     |-> 0 ]

Popup_set_position(self, pos) == [self EXCEPT !.position = pos]

\* Mutant of get_rel_position: the box is never shifted left.
Popup_get_rel_position_noshift(self, viewport, cursor) ==
    LET position == unwrap_or(self.position, unwrap_or(cursor, Position_default))
        height == self.size[2]
        row    == position.row
        rel_y  == IF viewport.height > row + height
                  THEN row + 1
                  ELSE saturating_sub(row, height)
    IN  [ self |-> [self EXCEPT !.position = Some(position)],
          rel  |-> <<position.col, rel_y>> ]

\* Mutant of get_rel_position: a box that ends on the last row still counts
\* as fitting below.
Popup_get_rel_position_below_ge(self, viewport, cursor) ==
    LET position == unwrap_or(self.position, unwrap_or(cursor, Position_default))
        width  == self.size[1]
        height == self.size[2]
        col    == position.col
        row    == position.row
        rel_x  == IF viewport.width <= col + width
                  THEN saturating_sub(col, saturating_sub(col + width, viewport.width))
                  ELSE col
        rel_y  == IF viewport.height >= row + height
                  THEN row + 1
                  ELSE saturating_sub(row, height)
    IN  [ self |-> [self EXCEPT !.position = Some(position)],
          rel  |-> <<rel_x, rel_y>> ]

\* Mutant of get_rel_position: the anchor follows the cursor on every call.
Popup_get_rel_position_repinned(self, viewport, cursor) ==
    LET position == unwrap_or(cursor, Position_default)
        width  == self.size[1]
        height == self.size[2]
        col    == position.col
        row    == position.row
        rel_x  == IF viewport.width <= col + width
                  THEN saturating_sub(col, saturating_sub(col + width, viewport.width))
                  ELSE col
        rel_y  == IF viewport.height > row + height
                  THEN row + 1
                  ELSE saturating_sub(row, height)
    IN  [ self |-> [self EXCEPT !.position = Some(position)],
          rel  |-> <<rel_x, rel_y>> ]

\* Returns the popup (its anchor now pinned) and the relative position.
Popup_get_rel_position(self, viewport, cursor) ==
    LET position == unwrap_or(self.position, unwrap_or(cursor, Position_default))
        width  == self.size[1]
        height == self.size[2]
        col    == position.col
        row    == position.row
        rel_x  == IF viewport.width <= col + width
                  THEN saturating_sub(col, saturating_sub(col + width, viewport.width))
                  ELSE col
        rel_y  == IF viewport.height > row + height
                  THEN row + 1
                  ELSE saturating_sub(row, height)
    IN  [ self |-> [self EXCEPT !.position = Some(position)],
          rel  |-> <<rel_x, rel_y>> ]

\* Mutant of scroll: the forward branch forgets to clamp.
Popup_scroll_unclamped(self, offset, direction) ==
    IF direction
    THEN [self EXCEPT !.scroll = self.scroll + offset + offset]
    ELSE [self EXCEPT !.scroll = saturating_sub(self.scroll, offset)]

Popup_scroll(self, offset, direction) ==
    IF direction
    THEN LET scroll1    == self.scroll + offset
             max_offset == saturating_sub(self.child_size[2], self.size[2])
         IN  [self EXCEPT !.scroll = Min(scroll1 + offset, max_offset)]
    ELSE [self EXCEPT !.scroll = saturating_sub(self.scroll, offset)]

\* Mutant of required_size: the size is not capped by the viewport.
Popup_required_size_nocap(self, viewport, child) ==
    LET size       == << child[1] + self.margin.horizontal * 2,
                         child[2] + self.margin.vertical * 2 >>
        max_offset == saturating_sub(child[2], size[2])
    IN  [self EXCEPT !.child_size = <<child[1], child[2]>>,
                     !.size       = size,
                     !.scroll     = Min(self.scroll, max_offset)]

\* child: what contents.required_size(inner) reports
Popup_required_size(self, viewport, child) ==
    LET max_width  == Min(POPUP_MAX_WIDTH, viewport.width)
        max_height == Min(POPUP_MAX_HEIGHT, saturating_sub(viewport.height, 2))
        width      == child[1]
        height     == child[2]
        size       == << Min(width + self.margin.horizontal * 2, max_width),
                         Min(height + self.margin.vertical * 2, max_height) >>
        max_offset == saturating_sub(height, size[2])
    IN  [self EXCEPT !.child_size = <<width, height>>,
                     !.size       = size,
                     !.scroll     = Min(self.scroll, max_offset)]

\* render: required_size, then get_rel_position; cx.scroll is the offset shown
Popup_render(self, viewport, child, cursor) ==
    LET sized  == Popup_required_size(self, viewport, child)
        placed == Popup_get_rel_position(sized, viewport, cursor)
    IN  [ self      |-> placed.self,
          rel       |-> placed.rel,
          cx_scroll |-> sized.scroll ]

PopupEvents == {"Esc", "Ctrl-c", "Ctrl-d", "Ctrl-u", "OtherKey", "Resize", "Mouse"}

ContentResults == {"Ignored", "Consumed"}

\* Mutant of handle_event: only resize events are set apart, mouse events
\* reach the content like keys.
Popup_handle_event_mouse_forwarded(self, event, content) ==
    IF event = "Resize"
    THEN [self |-> self, result |-> "Ignored", forwarded |-> FALSE, close |-> FALSE]
    ELSE IF event \in {"Esc", "Ctrl-c"}
    THEN [self |-> self, result |-> "Consumed", forwarded |-> FALSE, close |-> TRUE]
    ELSE IF event = "Ctrl-d"
    THEN [self |-> Popup_scroll(self, self.size[2] \div 2, TRUE),
          result |-> "Consumed", forwarded |-> FALSE, close |-> FALSE]
    ELSE IF event = "Ctrl-u"
    THEN [self |-> Popup_scroll(self, self.size[2] \div 2, FALSE),
          result |-> "Consumed", forwarded |-> FALSE, close |-> FALSE]
    ELSE [self |-> self, result |-> content, forwarded |-> TRUE, close |-> FALSE]

\* content: what contents.handle_event returns when the event is forwarded
Popup_handle_event(self, event, content) ==
    IF event \in {"Resize", "Mouse"}
    THEN [self |-> self, result |-> "Ignored", forwarded |-> FALSE, close |-> FALSE]
    ELSE IF event \in {"Esc", "Ctrl-c"}
    THEN [self |-> self, result |-> "Consumed", forwarded |-> FALSE, close |-> TRUE]
    ELSE IF event = "Ctrl-d"
    THEN [self |-> Popup_scroll(self, self.size[2] \div 2, TRUE),
          result |-> "Consumed", forwarded |-> FALSE, close |-> FALSE]
    ELSE IF event = "Ctrl-u"
    THEN [self |-> Popup_scroll(self, self.size[2] \div 2, FALSE),
          result |-> "Consumed", forwarded |-> FALSE, close |-> FALSE]
    ELSE [self |-> self, result |-> content, forwarded |-> TRUE, close |-> FALSE]

\* the record of a call on the popup
NoViewport == [width |-> 0, height |-> 0]

Call(op, before) ==
    [ op |-> op, scroll_before |-> before.scroll, offset |-> 0, direction |-> FALSE,
      viewport |-> NoViewport, child |-> <<0, 0>>, rel |-> <<0, 0>>,
      event |-> "None", result |-> "None", forwarded |-> FALSE, cursor |-> None,
      content |-> None ]

(***************************************************************************)
(* Key events.  A key is its code and its modifiers; a code of one         *)
(* character is KeyCode::Char.                                             *)
(***************************************************************************)
Key(code, modifiers) == [code |-> code, modifiers |-> modifiers]

CharCodes == {"0", "1", "2", "3", ".", "i", "g"}

Digits == {"0", "1", "2", "3"}

\* char::to_digit(10)
to_digit(code) ==
    CASE code = "0" -> 0 [] code = "1" -> 1 [] code = "2" -> 2 [] code = "3" -> 3

\* KeyEvent::char
KeyEvent_char(key) == IF key.code \in CharCodes THEN Some(key.code) ELSE None

\* canonicalize_key: SHIFT is dropped from character keys
canonicalize_key(key) ==
    IF key.code \in CharCodes /\ key.modifiers = "SHIFT"
    THEN Key(key.code, "NONE")
    ELSE key

\* key!(i @ '0'..='9'): an unmodified digit
is_digit_key(key) == key.code \in Digits /\ key.modifiers = "NONE"

\* key!('.')
is_repeat_key(key) == key = Key(".", "NONE")

KeyEsc == Key("Esc", "NONE")

\* The keys of the dispatch model and those of the count model.
DispatchKeys ==
    { Key("1", "NONE"), Key(".", "NONE"), Key("i", "NONE"), Key("g", "NONE"),
      KeyEsc, Key("F1", "NONE"), Key("1", "ALT") }

\* The keys the dispatch model types into Insert mode: a character the
\* Insert keymap does not bind ('.', 'i' and F1 are unbound there too), the
\* start of a sequence, and the keys bound to commands.
InsertKeys ==
    { Key("1", "NONE"), Key("g", "NONE"), KeyEsc, Key("1", "ALT") }

CountKeys ==
    { Key(d, "NONE") : d \in Digits } \cup
    { Key("g", "NONE"), Key("g", "SHIFT"), KeyEsc, Key("F1", "NONE"), Key("1", "ALT") }

(***************************************************************************)
(* Commands and next-key handlers.  Their bodies are outside the           *)
(* dispatcher; a command is known here by what it does to the state the    *)
(* dispatcher reads: the document's mode, the next-key handler it          *)
(* registers, and whether it closes the last view.                         *)
(***************************************************************************)
Modes == {"Normal", "Insert", "Select"}

\* the mode a command leaves the document in ("" : unchanged)
CommandMode(cmd) ==
    CASE cmd = "normal_mode" -> "Normal"
      [] cmd \in {"insert_mode", "append_mode"} -> "Insert"
      [] cmd = "select_mode" -> "Select"
      [] OTHER -> ""

\* the next-key handler a command registers through cx.on_next_key
CommandHandler(cmd) ==
    CASE cmd \in {"replace", "insert_register"} -> Some("put_char")
      [] cmd = "open_on_key" -> Some("enter_insert")
      [] OTHER -> None

\* the mode a next-key handler leaves the document in ("" : unchanged)
HandlerMode(handler) == IF handler = "enter_insert" THEN "Insert" ELSE ""

(***************************************************************************)
(* Keymaps: per mode a trie from key sequences to a command (Leaf), a      *)
(* command sequence (Sequence) or a sub-map (Node).                        *)
(***************************************************************************)
Leaf(cmd) == [kind |-> "Leaf", cmds |-> <<cmd>>]

Sequence(cmds) == [kind |-> "Sequence", cmds |-> cmds]

Node == [kind |-> "Node", cmds |-> <<>>]

Absent == [kind |-> "Absent", cmds |-> <<>>]

KeyG == Key("g", "NONE")

KeyI == Key("i", "NONE")

CommandTrie(path) ==
    CASE path = <<KeyI>> -> Leaf("insert_mode")
      [] path = <<KeyEsc>> -> Leaf("normal_mode")
      [] path = <<Key("1", "ALT")>> -> Leaf("select_mode")
      [] path = <<Key("F1", "NONE")>> -> Leaf("replace")
      [] path = <<KeyG>> -> Node
      [] path = <<KeyG, KeyG>> -> Leaf("goto_file_start")
      [] path = <<KeyG, KeyI>> -> Leaf("append_mode")
      [] path = <<KeyG, Key(".", "NONE")>> -> Leaf("open_on_key")
      [] path = <<KeyG, Key("F1", "NONE")>> -> Sequence(<<"goto_file_start", "insert_mode">>)
      [] path = <<KeyG, Key("1", "ALT")>> -> Leaf("wclose")
      [] OTHER -> Absent

InsertTrie(path) ==
    CASE path = <<KeyEsc>> -> Leaf("normal_mode")
      [] path = <<Key("1", "ALT")>> -> Leaf("insert_register")
      [] path = <<KeyG>> -> Node
      [] path = <<KeyG, KeyG>> -> Leaf("normal_mode")
      [] OTHER -> Absent

Trie(mode, path) == IF mode = "Insert" THEN InsertTrie(path) ELSE CommandTrie(path)

\* Keymap::get: the key extends the pending sequence.  Returns the result's
\* kind, its commands or buffered keys, and the sequence left pending.
Keymap_get(pending, mode, key) ==
    With(Append(pending, key), LAMBDA path :
    With(Trie(mode, path), LAMBDA node :
        CASE node.kind = "Leaf" ->
               [kind |-> "Matched", cmds |-> node.cmds, keys |-> <<>>, pending |-> <<>>]
          [] node.kind = "Sequence" ->
               [kind |-> "MatchedSequence", cmds |-> node.cmds, keys |-> <<>>, pending |-> <<>>]
          [] node.kind = "Node" ->
               [kind |-> "Pending", cmds |-> <<>>, keys |-> <<>>, pending |-> path]
          [] OTHER ->
               IF pending = <<>>
               THEN [kind |-> "NotFound", cmds |-> <<>>, keys |-> <<>>, pending |-> <<>>]
               ELSE [kind |-> "Cancelled", cmds |-> <<>>, keys |-> path, pending |-> <<>>]))

(***************************************************************************)
(* The state threaded through one dispatch: the EditorView's fields, the   *)
(* Editor's fields the dispatcher reads and writes, the commands::Context  *)
(* of the event, and the trace of the calls it made.                       *)
(***************************************************************************)
EditorView_new ==
    [ \* EditorView
      pending      |-> <<>>,
      on_next_key  |-> None,
      last_insert  |-> <<"normal_mode", <<>>>>,
      completion   |-> None,
      \* Editor and its current document
      mode         |-> "Normal",
      count        |-> None,
      status_msg   |-> None,
      autoinfo     |-> None,
      savepoint    |-> None,
      selected_register |-> None,
      should_close |-> FALSE,
      \* commands::Context
      cx_count     |-> None,
      cx_register  |-> None,
      cx_on_next_key_callback |-> None,
      \* calls made during the event; a panic ends it
      trace        |-> <<>>,
      panicked     |-> FALSE ]

Traced(st, call) == [st EXCEPT !.trace = Append(st.trace, call)]

Panic(st, what) == [Traced(st, <<"panic", what>>) EXCEPT !.panicked = TRUE]

\* MappableCommand::execute
execute(st, cmd) ==
    [Traced(st, <<"execute", cmd, st.cx_count>>) EXCEPT
        !.mode = IF CommandMode(cmd) = "" THEN @ ELSE CommandMode(cmd),
        !.cx_on_next_key_callback = IF CommandHandler(cmd) = None THEN @
                                    ELSE CommandHandler(cmd),
        !.should_close = IF cmd = "wclose" THEN TRUE ELSE @]

RECURSIVE execute_all(_, _)
execute_all(st, cmds) ==
    IF cmds = <<>> THEN st ELSE execute_all(execute(st, Head(cmds)), Tail(cmds))

\* commands::insert::insert_char
insert_char(st, ch) == Traced(st, <<"insert_char", ch>>)

\* the registered FnOnce(&mut commands::Context, KeyEvent)
on_next_key(st, handler, key) ==
    LET t == Traced(st, <<"on_next_key", handler, key>>)
    IN  [t EXCEPT !.mode = IF HandlerMode(handler) = "" THEN @ ELSE HandlerMode(handler)]

\* self.keymaps.get_mut(&mode).unwrap().get(event)
keymaps_get(st, mode, event) ==
    With(Keymap_get(st.pending, mode, event), LAMBDA r :
        [ st     |-> [Traced(st, <<"keymap_get", mode, event>>) EXCEPT !.pending = r.pending],
          result |-> r ])

(***************************************************************************)
(* EditorView: key dispatch                                                *)
(***************************************************************************)
\* NonZeroUsize::new
NonZeroUsize_new(n) == IF n = 0 THEN None ELSE Some(n)

\* Mutant of the count arm: a later digit is added, not appended.
accumulate_count_added(count, i) ==
    NonZeroUsize_new(IF count = None THEN i ELSE count[1] + i)

\* the count arm of command_mode: count.map_or(i, |c| c.get() * 10 + i)
accumulate_count(count, i) ==
    NonZeroUsize_new(IF count = None THEN i ELSE count[1] * 10 + i)

handle_keymap_event(st, mode, event) ==
    With(keymaps_get([st EXCEPT !.autoinfo = None], mode, event), LAMBDA g :
    With(g.result, LAMBDA r :
        CASE r.kind = "Matched" ->
               [st |-> execute(g.st, r.cmds[1]), result |-> None]
          [] r.kind = "Pending" ->
               [st |-> [g.st EXCEPT !.autoinfo = Some(r.pending)], result |-> None]
          [] r.kind = "MatchedSequence" ->
               [st |-> execute_all(g.st, r.cmds), result |-> None]
          [] OTHER ->
               [st |-> g.st, result |-> Some(r)]))

\* Mutant of the Cancelled arm: only the key that cancelled the sequence is
\* handled, the keys buffered before it are dropped.
replay_cancelled_last_only(st, pending) ==
    IF pending = <<>> THEN st
    ELSE With(pending[Len(pending)], LAMBDA ev :
             IF KeyEvent_char(ev) # None
             THEN insert_char(st, KeyEvent_char(ev)[1])
             ELSE With(keymaps_get(st, "Insert", ev), LAMBDA g :
                      IF g.result.kind = "Matched"
                      THEN execute(g.st, g.result.cmds[1])
                      ELSE g.st))

\* the Cancelled arm of insert_mode: the buffered keys, in order
RECURSIVE replay_cancelled(_, _)
replay_cancelled(st, pending) ==
    IF pending = <<>> THEN st
    ELSE replay_cancelled(
             With(Head(pending), LAMBDA ev :
                 IF KeyEvent_char(ev) # None
                 THEN insert_char(st, KeyEvent_char(ev)[1])
                 ELSE With(keymaps_get(st, "Insert", ev), LAMBDA g :
                          IF g.result.kind = "Matched"
                          THEN execute(g.st, g.result.cmds[1])
                          ELSE g.st)),
             Tail(pending))

\* Mutant of insert_mode: an unbound key is dropped instead of inserted.
insert_mode_drops_unbound(st, event) ==
    With(handle_keymap_event(Traced(st, <<"insert_mode", event>>), "Insert", event),
         LAMBDA h :
        IF h.result = None THEN h.st
        ELSE IF h.result[1].kind = "NotFound"
        THEN h.st
        ELSE replay_cancelled(h.st, h.result[1].keys))

insert_mode(st, event) ==
    With(handle_keymap_event(Traced(st, <<"insert_mode", event>>), "Insert", event),
         LAMBDA h :
        IF h.result = None THEN h.st
        ELSE IF h.result[1].kind = "NotFound"
        THEN (IF KeyEvent_char(event) # None
              THEN insert_char(h.st, KeyEvent_char(event)[1])
              ELSE h.st)
        ELSE replay_cancelled(h.st, h.result[1].keys))

\* Mutant of the repeat arm: a replayed key is recorded like a typed one.
RECURSIVE replay_last_insert_recorded(_, _)
replay_last_insert_recorded(st, keys) ==
    IF keys = <<>> THEN st
    ELSE replay_last_insert_recorded(
             insert_mode([st EXCEPT !.last_insert[2] = Append(@, Head(keys))], Head(keys)),
             Tail(keys))

\* the repeat arm of command_mode: the recorded keys through insert_mode
RECURSIVE replay_last_insert(_, _)
replay_last_insert(st, keys) ==
    IF keys = <<>> THEN st
    ELSE replay_last_insert(insert_mode(st, Head(keys)), Tail(keys))

\* Mutant of command_mode: the recorded keys are replayed, the recorded
\* command is not executed.
command_mode_replay_only(st, mode, event) ==
    IF is_digit_key(event)
    THEN [st EXCEPT !.count = accumulate_count(st.count, to_digit(event.code))]
    ELSE IF is_repeat_key(event) /\ st.pending = <<>>
    THEN replay_last_insert(st, st.last_insert[2])
    ELSE With(handle_keymap_event([st EXCEPT !.cx_count = st.count,
                                                !.cx_register = st.selected_register,
                                                !.selected_register = None], mode, event).st,
              LAMBDA h : IF h.pending = <<>> THEN [h EXCEPT !.count = None] ELSE h)

\* Mutant of command_mode: the command is invoked without the count.
command_mode_count_dropped(st, mode, event) ==
    IF is_digit_key(event)
    THEN [st EXCEPT !.count = accumulate_count(st.count, to_digit(event.code))]
    ELSE IF is_repeat_key(event) /\ st.pending = <<>>
    THEN replay_last_insert(execute(st, st.last_insert[1]), st.last_insert[2])
    ELSE With(handle_keymap_event([st EXCEPT !.cx_register = st.selected_register,
                                             !.selected_register = None], mode, event).st,
              LAMBDA h : IF h.pending = <<>> THEN [h EXCEPT !.count = None] ELSE h)

\* Mutant of command_mode: the count outlives the key that used it.
command_mode_count_kept(st, mode, event) ==
    IF is_digit_key(event)
    THEN [st EXCEPT !.count = accumulate_count(st.count, to_digit(event.code))]
    ELSE IF is_repeat_key(event) /\ st.pending = <<>>
    THEN replay_last_insert(execute(st, st.last_insert[1]), st.last_insert[2])
    ELSE handle_keymap_event([st EXCEPT !.cx_count = st.count,
                                                !.cx_register = st.selected_register,
                                                !.selected_register = None], mode, event).st

command_mode(st, mode, event) ==
    IF is_digit_key(event)
    THEN [st EXCEPT !.count = accumulate_count(st.count, to_digit(event.code))]
    ELSE IF is_repeat_key(event) /\ st.pending = <<>>
    THEN replay_last_insert(execute(st, st.last_insert[1]), st.last_insert[2])
    ELSE With(handle_keymap_event([st EXCEPT !.cx_count = st.count,
                                                !.cx_register = st.selected_register,
                                                !.selected_register = None], mode, event).st,
              LAMBDA h : IF h.pending = <<>> THEN [h EXCEPT !.count = None] ELSE h)

\* Mutant of set_completion: an empty result is installed like any other.
set_completion_unchecked(st, is_empty) ==
    [st EXCEPT !.savepoint = Some("savepoint"), !.completion = Some("completion")]

\* Completion::new(..).is_empty() decides whether an overlay is installed
set_completion(st, is_empty) ==
    IF is_empty THEN st
    ELSE [st EXCEPT !.savepoint = Some("savepoint"), !.completion = Some("completion")]

clear_completion(st) == [st EXCEPT !.completion = None, !.savepoint = None]

OverlayResults == {"Ignored", "Consumed", "ConsumedClose"}

\* Mutant of the Mode::Insert arm: a key the completion consumed goes on to
\* insert_mode all the same.
handle_insert_key_not_swallowed(st, key, overlay, update_empty) ==
    With([st EXCEPT !.last_insert[2] = Append(@, key)], LAMBDA pushed :
    With(IF pushed.completion = None THEN pushed
         ELSE Traced(pushed, <<"completion_handle_event", key>>), LAMBDA offered :
    With(IF pushed.completion # None /\ overlay = "ConsumedClose"
         THEN clear_completion(offered)
         ELSE offered, LAMBDA closed :
        With(insert_mode(closed, key), LAMBDA i :
            IF i.completion = None THEN i
            ELSE IF update_empty
            THEN clear_completion(Traced(i, <<"completion_update">>))
            ELSE Traced(i, <<"completion_update">>)))))

\* the Mode::Insert arm of handle_event.  overlay: what the completion's
\* handle_event returns; update_empty: whether it is empty after update
handle_insert_key(st, key, overlay, update_empty) ==
    With([st EXCEPT !.last_insert[2] = Append(@, key)], LAMBDA pushed :
    With(IF pushed.completion = None THEN pushed
         ELSE Traced(pushed, <<"completion_handle_event", key>>), LAMBDA offered :
    With(IF pushed.completion # None /\ overlay = "ConsumedClose"
         THEN clear_completion(offered)
         ELSE offered, LAMBDA closed :
        IF pushed.completion # None /\ overlay # "Ignored"
        THEN closed
        ELSE With(insert_mode(closed, key), LAMBDA i :
                 IF i.completion = None THEN i
                 ELSE IF update_empty
                 THEN clear_completion(Traced(i, <<"completion_update">>))
                 ELSE Traced(i, <<"completion_update">>)))))

\* Mutant of the mode transitions: leaving Insert mode keeps the completion.
mode_transitions_completion_kept(st, mode, key) ==
    With(Traced(st, <<"mode_transitions", mode, st.mode>>), LAMBDA m :
        IF mode = "Normal" /\ m.mode = "Insert"
        THEN With(keymaps_get(m, mode, key), LAMBDA g :
                 IF g.result.kind = "Matched"
                 THEN [g.st EXCEPT !.last_insert = <<g.result.cmds[1], <<>>>>]
                 ELSE Panic(g.st, "unimplemented"))
        ELSE m)

\* the mode transitions at the end of the Event::Key arm: the match on
\* (mode, doc.mode()) and its arms
mode_transitions(st, mode, key) ==
    With(Traced(st, <<"mode_transitions", mode, st.mode>>), LAMBDA m :
        IF mode = "Normal" /\ m.mode = "Insert"
        THEN With(keymaps_get(m, mode, key), LAMBDA g :
                 IF g.result.kind = "Matched"
                 THEN [g.st EXCEPT !.last_insert = <<g.result.cmds[1], <<>>>>]
                 ELSE Panic(g.st, "unimplemented"))
        ELSE IF mode = "Insert" /\ m.mode = "Normal"
        THEN [m EXCEPT !.completion = None]
        ELSE m)

\* Mutant of the Event::Key arm: the one-shot handler is called but stays
\* registered until a command registers another one.
EditorView_handle_key_handler_kept(st0, raw, overlay, update_empty) ==
    With(canonicalize_key(raw), LAMBDA key :
    With([st0 EXCEPT !.cx_count = None, !.cx_register = None,
                     !.cx_on_next_key_callback = None,
                     !.trace = <<>>, !.status_msg = None], LAMBDA cx :
    With(cx.mode, LAMBDA mode :
    With(IF cx.on_next_key # None
         THEN on_next_key(cx, cx.on_next_key[1], key)
         ELSE IF mode = "Insert"
         THEN handle_insert_key(cx, key, overlay, update_empty)
         ELSE command_mode(cx, mode, key), LAMBDA done :
    With([done EXCEPT !.on_next_key = IF done.cx_on_next_key_callback = None THEN @
                                      ELSE done.cx_on_next_key_callback,
                      !.cx_on_next_key_callback = None], LAMBDA taken :
        IF taken.should_close
        THEN [st |-> taken, result |-> "Ignored"]
        ELSE With(Traced(taken, <<"ensure_cursor_in_view">>), LAMBDA seen :
             With(IF seen.mode # "Insert"
                  THEN Traced(seen, <<"append_changes_to_history">>)
                  ELSE seen, LAMBDA stored :
             With(mode_transitions(stored, mode, key), LAMBDA moved :
                 [st |-> moved,
                  result |-> IF moved.panicked THEN "None" ELSE "Consumed"]))))))))

\* Mutant of the Event::Key arm: the cursor is scrolled into view after the
\* history commit and the mode transitions.
EditorView_handle_key_scroll_last(st0, raw, overlay, update_empty) ==
    With(canonicalize_key(raw), LAMBDA key :
    With([st0 EXCEPT !.cx_count = None, !.cx_register = None,
                     !.cx_on_next_key_callback = None,
                     !.trace = <<>>, !.status_msg = None], LAMBDA cx :
    With(cx.mode, LAMBDA mode :
    With(IF cx.on_next_key # None
         THEN on_next_key([cx EXCEPT !.on_next_key = None], cx.on_next_key[1], key)
         ELSE IF mode = "Insert"
         THEN handle_insert_key(cx, key, overlay, update_empty)
         ELSE command_mode(cx, mode, key), LAMBDA done :
    With([done EXCEPT !.on_next_key = done.cx_on_next_key_callback,
                      !.cx_on_next_key_callback = None], LAMBDA taken :
        IF taken.should_close
        THEN [st |-> taken, result |-> "Ignored"]
        ELSE With(IF taken.mode # "Insert"
                  THEN Traced(taken, <<"append_changes_to_history">>)
                  ELSE taken, LAMBDA stored :
             With(mode_transitions(stored, mode, key), LAMBDA moved :
                 [st |-> IF moved.panicked THEN moved
                         ELSE Traced(moved, <<"ensure_cursor_in_view">>),
                  result |-> IF moved.panicked THEN "None" ELSE "Consumed"])))))))

\* the Event::Key arm of handle_event; result is the EventResult
EditorView_handle_key(st0, raw, overlay, update_empty) ==
    With(canonicalize_key(raw), LAMBDA key :
    With([st0 EXCEPT !.cx_count = None, !.cx_register = None,
                     !.cx_on_next_key_callback = None,
                     !.trace = <<>>, !.status_msg = None], LAMBDA cx :
    With(cx.mode, LAMBDA mode :
    With(IF cx.on_next_key # None
         THEN on_next_key([cx EXCEPT !.on_next_key = None], cx.on_next_key[1], key)
         ELSE IF mode = "Insert"
         THEN handle_insert_key(cx, key, overlay, update_empty)
         ELSE command_mode(cx, mode, key), LAMBDA done :
    With([done EXCEPT !.on_next_key = done.cx_on_next_key_callback,
                      !.cx_on_next_key_callback = None], LAMBDA taken :
        IF taken.should_close
        THEN [st |-> taken, result |-> "Ignored"]
        ELSE With(Traced(taken, <<"ensure_cursor_in_view">>), LAMBDA seen :
             With(IF seen.mode # "Insert"
                  THEN Traced(seen, <<"append_changes_to_history">>)
                  ELSE seen, LAMBDA stored :
             With(mode_transitions(stored, mode, key), LAMBDA moved :
                 [st |-> moved,
                  result |-> IF moved.panicked THEN "None" ELSE "Consumed"]))))))))

(***************************************************************************)
(* The views of the Editor and the mouse.  The screen is one row of cells; *)
(* view v shows its document in cell column v - 1 and the columns past the *)
(* last view belong to no view.  Hit-testing and scrolling are outside the *)
(* EditorView and are known here by what they answer.                      *)
(***************************************************************************)
\* the last line of the documents, and the largest wheel setting
MaxLine == 1

MaxScrollLines == 1

\* a split of two views: the focused one and another one
ViewIds == {1, 2}

PointerColumns == {0} \cup ViewIds

\* View::pos_at_screen_coords: the position under the pointer, if the
\* pointer is inside the view
pos_at_screen_coords(t, view_id, row, column) ==
    IF column = view_id - 1 THEN Some(t.offset[view_id] + row) ELSE None

\* editor.tree.views().find_map(..): the first view the pointer is inside
find_view(t, row, column) ==
    IF \E v \in ViewIds : pos_at_screen_coords(t, v, row, column) # None
    THEN Some(CHOOSE v \in ViewIds :
                 /\ pos_at_screen_coords(t, v, row, column) # None
                 /\ \A w \in ViewIds :
                       pos_at_screen_coords(t, w, row, column) # None => v <= w)
    ELSE None

\* commands::scroll: the focused view moves by offset lines
commands_scroll(t, offset, direction) ==
    [t EXCEPT !.offset[t.focus] =
        IF direction = "Forward" THEN Min(@ + offset, MaxLine)
        ELSE saturating_sub(@, offset)]

Abs(n) == IF n < 0 THEN 0 - n ELSE n

MouseKinds == {"DownLeft", "DragLeft", "ScrollUp", "ScrollDown", "Moved"}

\* Range::from, Range::to
range_from(r) == Min(r.anchor, r.head)

range_to(r) == Max(r.anchor, r.head)

\* Range::point
Range_point(pos) == [anchor |-> pos, head |-> pos]

\* Selection::point: one range, which is the primary one
Selection_point(pos) == [ranges |-> <<Range_point(pos)>>, primary_index |-> 1]

\* Selection::push: the range is appended to the selection and becomes the
\* primary one
Selection_push(selection, range) ==
    [ranges |-> Append(selection.ranges, range),
     primary_index |-> Len(selection.ranges) + 1]

\* Selection::primary
Selection_primary(selection) == selection.ranges[selection.primary_index]

\* a handler's answer: the views after it, the EventResult and the commands
\* it executed
Handled(t, result, executed) == [tree |-> t, result |-> result, executed |-> executed]

\* Mutant of the wheel arm: the view under the pointer keeps the focus.
handle_mouse_event_focus_kept(t, kind, row, column, modifiers) ==
    With(find_view(t, row, column), LAMBDA result :
        IF kind \in {"ScrollUp", "ScrollDown"} /\ result # None
        THEN Handled(commands_scroll([t EXCEPT !.focus = result[1]],
                                     Abs(t.scroll_lines),
                                     IF kind = "ScrollUp" THEN "Backward" ELSE "Forward"),
                     "Consumed", <<>>)
        ELSE Handled(t, "Ignored", <<>>))

\* Mutant of the left-button-down arm: the Alt modifier is not looked at.
handle_mouse_event_alt_unread(t, kind, row, column, modifiers) ==
    With(find_view(t, row, column), LAMBDA result :
        IF kind = "DownLeft" /\ result # None
        THEN With(pos_at_screen_coords(t, result[1], row, column)[1], LAMBDA pos :
                 Handled([t EXCEPT !.selection[result[1]] = Selection_point(pos),
                                   !.focus = result[1]],
                         "Consumed", <<>>))
        ELSE Handled(t, "Ignored", <<>>))

\* Mutant of the left-button-up arm: a selection of span 1 is copied too.
left_button_up_span_1_copied(t) ==
    IF ~t.middle_click_paste
    THEN Handled(t, "Ignored", <<>>)
    ELSE With(Selection_primary(t.selection[t.focus]), LAMBDA range :
             IF range_to(range) - range_from(range) < 1
             THEN Handled(t, "Ignored", <<>>)
             ELSE Handled(t, "Consumed",
                          <<"yank_main_selection_to_primary_clipboard">>))

\* the MouseEventKind::Up(MouseButton::Left) arm of handle_mouse_event
left_button_up(t) ==
    IF ~t.middle_click_paste
    THEN Handled(t, "Ignored", <<>>)
    ELSE With(Selection_primary(t.selection[t.focus]), LAMBDA range :
             IF range_to(range) - range_from(range) <= 1
             THEN Handled(t, "Ignored", <<>>)
             ELSE Handled(t, "Consumed",
                          <<"yank_main_selection_to_primary_clipboard">>))

\* EditorView::handle_mouse_event
handle_mouse_event(t, kind, row, column, modifiers) ==
    With(find_view(t, row, column), LAMBDA result :
        CASE kind = "DownLeft" ->
               IF result # None
               THEN With(pos_at_screen_coords(t, result[1], row, column)[1], LAMBDA pos :
                        Handled([t EXCEPT !.selection[result[1]] =
                                              IF modifiers = "ALT"
                                              THEN Selection_push(@, Range_point(pos))
                                              ELSE Selection_point(pos),
                                          !.focus = result[1]],
                                "Consumed", <<>>))
               ELSE Handled(t, "Ignored", <<>>)
          [] kind = "DragLeft" ->
               With(pos_at_screen_coords(t, t.focus, row, column), LAMBDA pos :
                   IF pos = None
                   THEN Handled(t, "Ignored", <<>>)
                   ELSE Handled([t EXCEPT !.selection[t.focus].ranges[
                                              t.selection[t.focus].primary_index].head = pos[1]],
                                "Consumed", <<>>))
          [] kind \in {"ScrollUp", "ScrollDown"} ->
               IF result = None
               THEN Handled(t, "Ignored", <<>>)
               ELSE With(t.focus, LAMBDA current_view :
                        Handled([commands_scroll(
                                     [t EXCEPT !.focus = result[1]],
                                     Abs(t.scroll_lines),
                                     IF kind = "ScrollUp" THEN "Backward" ELSE "Forward")
                                 EXCEPT !.focus = current_view],
                                "Consumed", <<>>))
          [] kind = "UpLeft" -> left_button_up(t)
          [] kind = "UpMiddle" ->
               IF ~t.middle_click_paste
               THEN Handled(t, "Ignored", <<>>)
               ELSE IF modifiers = "ALT"
               THEN Handled(t, "Consumed", <<"replace_selections_with_primary_clipboard">>)
               ELSE IF result # None
               THEN With(pos_at_screen_coords(t, result[1], row, column)[1], LAMBDA pos :
                        Handled([t EXCEPT !.selection[result[1]] = Selection_point(pos),
                                          !.focus = result[1]],
                                "Consumed", <<"paste_primary_clipboard_before">>))
               ELSE Handled(t, "Ignored", <<>>)
          [] OTHER -> Handled(t, "Ignored", <<>>))

\* Mutant of handle_event: the status message is cleared for every event,
\* not only for a key.
EditorView_handle_event_status_cleared(st, t, kind, row, column, modifiers) ==
    With([st EXCEPT !.cx_count = None, !.cx_register = None,
                     !.cx_on_next_key_callback = None,
                    !.status_msg = None], LAMBDA cx :
        IF kind = "Resize"
        THEN [st |-> cx, tree |-> t, result |-> "Consumed", executed |-> <<>>]
        ELSE With(handle_mouse_event(t, kind, row, column, modifiers), LAMBDA r :
                 [st |-> cx, tree |-> r.tree, result |-> r.result,
                  executed |-> r.executed]))

\* the Event::Resize and Event::Mouse arms of handle_event, with the
\* commands::Context built for the event
EditorView_handle_event(st, t, kind, row, column, modifiers) ==
    With([st EXCEPT !.cx_count = None, !.cx_register = None,
                    !.cx_on_next_key_callback = None], LAMBDA cx :
        IF kind = "Resize"
        THEN [st |-> cx, tree |-> t, result |-> "Consumed", executed |-> <<>>]
        ELSE With(handle_mouse_event(t, kind, row, column, modifiers), LAMBDA r :
                 [st |-> cx, tree |-> r.tree, result |-> r.result,
                  executed |-> r.executed]))

\* cxt.editor: the views, with the configuration the handler reads
Tree_new(scroll_lines) ==
    [ focus        |-> 1,
      offset       |-> [v \in ViewIds |-> 0],
      selection    |-> [v \in ViewIds |-> Selection_point(0)],
      scroll_lines |-> scroll_lines,
      middle_click_paste |-> FALSE ]

NoMouse ==
    [ kind |-> "none", row |-> 0, column |-> 0, modifiers |-> "NONE", under |-> None,
      result |-> "None", executed |-> <<>>, before |-> Tree_new(0) ]

NoFrame == [op |-> "none"]

\* the views, the mouse and the renderer at rest
ScreenIdle ==
    /\ tree = Tree_new(0)
    /\ mouse_event = NoMouse
    /\ frame = NoFrame

(***************************************************************************)
(* Text.  A text is a sequence of grapheme clusters; positions are char    *)
(* indices.  "e'" is a cluster of two chars (a letter and a combining      *)
(* mark), "W" a wide character of two display columns.                     *)
(***************************************************************************)
\* the most grapheme clusters of a text, and the most ranges of a selection
MaxGraphemes == 2

MaxRanges == 2

Graphemes == {"a", "e'", "W", "\t", "\n"}

grapheme_chars(g) == IF g = "e'" THEN 2 ELSE 1

RECURSIVE len_chars(_)
len_chars(text) ==
    IF text = <<>> THEN 0 ELSE grapheme_chars(Head(text)) + len_chars(Tail(text))

\* the char indices at which a grapheme cluster of the text starts or ends
grapheme_boundaries(text) ==
    { len_chars(SubSeq(text, 1, n)) : n \in 0 .. Len(text) }

\* graphemes::prev_grapheme_boundary
prev_grapheme_boundary(text, i) ==
    With(grapheme_boundaries(text), LAMBDA boundaries :
        IF \E b \in boundaries : b < i
        THEN CHOOSE b \in boundaries : b < i /\ \A c \in boundaries : c < i => c <= b
        ELSE 0)

\* graphemes::next_grapheme_boundary
next_grapheme_boundary(text, i) ==
    With(grapheme_boundaries(text), LAMBDA boundaries :
        IF \E b \in boundaries : b > i
        THEN CHOOSE b \in boundaries : b > i /\ \A c \in boundaries : c > i => b <= c
        ELSE len_chars(text))

\* Range::min_width_1
min_width_1(range, text) ==
    IF range.anchor = range.head
    THEN [range EXCEPT !.head = next_grapheme_boundary(text, range.head)]
    ELSE range

(***************************************************************************)
(* EditorView::doc_selection_highlights.  A theme is the set of scopes it  *)
(* defines; a span is <<scope, start, end>>.                               *)
(***************************************************************************)
\* Theme::find_scope_index
find_scope_index(theme, scope) == IF scope \in theme THEN Some(scope) ELSE None

\* Mutant of range_highlights: the cursor is one char wide, not one cluster.
range_highlights_scalar_step(text, range0, selection_is_primary, cursor_is_block, cursor_scope, selection_scope) ==
    IF range0.head = range0.anchor /\ range0.head = len_chars(text)
    THEN (IF ~selection_is_primary \/ cursor_is_block
          THEN << <<cursor_scope, range0.head, range0.head + 1>> >>
          ELSE <<>>)
    ELSE With(min_width_1(range0, text), LAMBDA range :
        IF range.head > range.anchor
        THEN << <<selection_scope, range.anchor, range.head - 1>> >> \o
             (IF ~selection_is_primary \/ cursor_is_block
              THEN << <<cursor_scope, range.head - 1, range.head>> >>
              ELSE <<>>)
        ELSE (IF ~selection_is_primary \/ cursor_is_block
              THEN << <<cursor_scope, range.head, range.head + 1>> >>
              ELSE <<>>) \o
             << <<selection_scope, range.head + 1, range.anchor>> >>)

\* Mutant of range_highlights: the end-of-text cursor is suppressed for the
\* ranges that are not primary.
range_highlights_secondary_hidden(text, range0, selection_is_primary, cursor_is_block, cursor_scope, selection_scope) ==
    IF range0.head = range0.anchor /\ range0.head = len_chars(text)
    THEN (IF selection_is_primary \/ cursor_is_block
          THEN << <<cursor_scope, range0.head, range0.head + 1>> >>
          ELSE <<>>)
    ELSE << <<selection_scope, range_from(range0), range_to(range0)>> >>

\* the spans pushed for one range of the selection
range_highlights(text, range0, selection_is_primary, cursor_is_block, cursor_scope, selection_scope) ==
    IF range0.head = range0.anchor /\ range0.head = len_chars(text)
    THEN (IF ~selection_is_primary \/ cursor_is_block
          THEN << <<cursor_scope, range0.head, range0.head + 1>> >>
          ELSE <<>>)
    ELSE With(min_width_1(range0, text), LAMBDA range :
        IF range.head > range.anchor
        THEN With(prev_grapheme_boundary(text, range.head), LAMBDA cursor_start :
                 << <<selection_scope, range.anchor, cursor_start>> >> \o
                 (IF ~selection_is_primary \/ cursor_is_block
                  THEN << <<cursor_scope, cursor_start, range.head>> >>
                  ELSE <<>>))
        ELSE With(next_grapheme_boundary(text, range.head), LAMBDA cursor_end :
                 (IF ~selection_is_primary \/ cursor_is_block
                  THEN << <<cursor_scope, range.head, cursor_end>> >>
                  ELSE <<>>) \o
                 << <<selection_scope, cursor_end, range.anchor>> >>))

\* the spans each range of the selection adds, in the order of the ranges
selection_highlights(doc, theme, cursor_is_block) ==
    With(find_scope_index(theme, "ui.selection")[1], LAMBDA selection_scope :
    With(unwrap_or(find_scope_index(theme, "ui.cursor"), selection_scope),
         LAMBDA base_cursor_scope :
    With(unwrap_or(CASE doc.mode = "Insert" -> find_scope_index(theme, "ui.cursor.insert")
                     [] doc.mode = "Select" -> find_scope_index(theme, "ui.cursor.select")
                     [] OTHER -> Some(base_cursor_scope),
                   base_cursor_scope), LAMBDA cursor_scope :
    With(unwrap_or(find_scope_index(theme, "ui.cursor.primary"), cursor_scope),
         LAMBDA primary_cursor_scope :
    With(unwrap_or(find_scope_index(theme, "ui.selection.primary"), selection_scope),
         LAMBDA primary_selection_scope :
        [i \in 1 .. Len(doc.selection) |->
            range_highlights(doc.text, doc.selection[i], i = doc.primary_idx,
                             cursor_is_block,
                             IF i = doc.primary_idx THEN primary_cursor_scope
                             ELSE cursor_scope,
                             IF i = doc.primary_idx THEN primary_selection_scope
                             ELSE selection_scope)])))))

RECURSIVE Flatten(_)
Flatten(seqs) == IF seqs = <<>> THEN <<>> ELSE Head(seqs) \o Flatten(Tail(seqs))

\* EditorView::doc_selection_highlights
doc_selection_highlights(doc, theme, cursor_is_block) ==
    Flatten(selection_highlights(doc, theme, cursor_is_block))

\* the texts, selections and themes of the selection model
Texts == UNION { [1 .. n -> {"a", "e'"}] : n \in 0 .. MaxGraphemes }

Ranges(text) ==
    [anchor : grapheme_boundaries(text), head : grapheme_boundaries(text)]

\* Range::overlaps
range_overlaps(r, o) ==
    \/ range_from(r) = range_from(o)
    \/ (range_to(r) > range_from(o) /\ range_to(o) > range_from(r))

\* Selection: at least one range, sorted, no two ranges overlapping
Selections(text) ==
    { sel \in UNION { [1 .. n -> Ranges(text)] : n \in 1 .. MaxRanges } :
        \A i, j \in 1 .. Len(sel) :
            i < j => /\ range_from(sel[i]) <= range_from(sel[j])
                     /\ ~range_overlaps(sel[i], sel[j]) }

Themes ==
    { {"ui.selection", "ui.cursor.insert"},
      {"ui.selection", "ui.cursor", "ui.cursor.primary", "ui.selection.primary"} }

\* CursorShapeConfig::from_mode
CursorKinds == {"Block", "Bar"}

(***************************************************************************)
(* EditorView::doc_syntax_highlights and EditorView::render_text_highlights.*)
(* The rendered texts have one char per grapheme cluster, so a char index  *)
(* is an index of the sequence.  A highlight event is a record             *)
(* [kind, span, start, end].                                               *)
(***************************************************************************)
\* the most clusters of a rendered text, the widest and highest viewport and
\* the largest column offset
MaxTextLen == 3

MaxCols == 2

MaxRows == 2

MaxOffsetCol == 1

TabWidths == {2}

HighlightStart(span) == [kind |-> "HighlightStart", span |-> span, start |-> 0, end |-> 0]

HighlightEnd == [kind |-> "HighlightEnd", span |-> "", start |-> 0, end |-> 0]

Source(start, end) == [kind |-> "Source", span |-> "", start |-> start, end |-> end]

\* Rope::len_lines
len_lines(text) == Cardinality({i \in 1 .. Len(text) : text[i] = "\n"}) + 1

\* Rope::line_to_byte, in chars: where line line_idx starts
line_to_char(text, line_idx) ==
    IF line_idx = 0 THEN 0
    ELSE IF line_idx >= len_lines(text) THEN Len(text)
    ELSE CHOOSE i \in 1 .. Len(text) :
            /\ text[i] = "\n"
            /\ Cardinality({j \in 1 .. i : text[j] = "\n"}) = line_idx

\* Syntax::highlight_iter: a syntax tree is the char index at which its one
\* highlighted node starts; the node runs to the end of the text.  The range
\* sets where the events start, it does not restrict the source.
highlight_iter(text, syntax, start, end) ==
    IF syntax <= start
    THEN <<HighlightStart("syntax"), Source(start, Len(text)), HighlightEnd>>
    ELSE <<Source(start, syntax), HighlightStart("syntax"),
           Source(syntax, Len(text)), HighlightEnd>>

\* the char range of the lines of the viewport
viewport_range(text, offset, height) ==
    With(Min(saturating_sub(offset.row + height, 1),
             saturating_sub(len_lines(text), 1)), LAMBDA last_line :
        [ start |-> line_to_char(text, offset.row),
          end |-> line_to_char(text, last_line + 1) ])

\* EditorView::doc_syntax_highlights; doc has the fields text and syntax
doc_syntax_highlights(doc, offset, height) ==
    With(viewport_range(doc.text, offset, height), LAMBDA range :
        IF doc.syntax # None
        THEN highlight_iter(doc.text, doc.syntax[1], range.start, range.end)
        ELSE <<Source(range.start, range.end)>>)

\* EditorView::doc_diagnostics_highlights
doc_diagnostics_highlights(doc, theme) ==
    With(IF find_scope_index(theme, "diagnostic") # None
         THEN find_scope_index(theme, "diagnostic")[1]
         ELSE IF find_scope_index(theme, "ui.cursor") # None
         THEN find_scope_index(theme, "ui.cursor")[1]
         ELSE find_scope_index(theme, "ui.selection")[1], LAMBDA diagnostic_scope :
        [i \in 1 .. Len(doc.diagnostics) |->
            <<diagnostic_scope, doc.diagnostics[i].start, doc.diagnostics[i].end>>])

\* syntax::merge: the events of iter with the spans laid over them.  Each
\* span opens a scope where it starts and closes it where it ends or where
\* the current text run ends, whichever comes first; a text run is cut at the
\* next boundary of either source; what is left of the spans when the events
\* run out is emitted after them.
RECURSIVE merge(_, _)
merge(iter, spans) ==
    IF iter = <<>>
    THEN (IF spans = <<>> THEN <<>>
          ELSE <<HighlightStart(Head(spans)[1]),
                 Source(Head(spans)[2], Head(spans)[3]), HighlightEnd>>
               \o merge(<<>>, Tail(spans)))
    ELSE IF spans = <<>> THEN iter
    ELSE With(Head(iter), LAMBDA event : With(Head(spans), LAMBDA span :
        IF event.kind # "Source" THEN <<event>> \o merge(Tail(iter), spans)
        ELSE IF event.start > span[2]
        THEN (IF event.start > span[3] THEN merge(iter, Tail(spans))
              ELSE merge(iter, << <<span[1], event.start, span[3]>> >> \o Tail(spans)))
        ELSE IF event.start < span[2]
        THEN With(Min(span[2], event.end), LAMBDA intersect :
                <<Source(event.start, intersect)>>
                \o merge(IF event.end = intersect THEN Tail(iter)
                         ELSE <<Source(intersect, event.end)>> \o Tail(iter),
                         spans))
        ELSE With(Min(span[3], event.end), LAMBDA intersect :
                <<HighlightStart(span[1]), Source(event.start, intersect), HighlightEnd>>
                \o merge(IF event.end = intersect THEN Tail(iter)
                         ELSE <<Source(intersect, event.end)>> \o Tail(iter),
                         IF intersect = span[3] THEN Tail(spans)
                         ELSE << <<span[1], intersect, span[3]>> >> \o Tail(spans)))))

\* the spans as events of their own, one run per span
RECURSIVE span_events(_)
span_events(spans) ==
    IF spans = <<>> THEN <<>>
    ELSE <<HighlightStart(Head(spans)[1]), Source(Head(spans)[2], Head(spans)[3]),
           HighlightEnd>> \o span_events(Tail(spans))

\* Mutant of render_view_highlights: the selection spans follow the other
\* events instead of being merged into them.
render_view_highlights_chained(doc, offset, height, theme, is_focused, cursor_is_block) ==
    merge(doc_syntax_highlights(doc, offset, height), doc_diagnostics_highlights(doc, theme))
    \o (IF is_focused
        THEN span_events(doc_selection_highlights(doc, theme, cursor_is_block))
        ELSE <<>>)

\* EditorView::render_view: the events handed to render_text_highlights
render_view_highlights(doc, offset, height, theme, is_focused, cursor_is_block) ==
    With(merge(doc_syntax_highlights(doc, offset, height),
               doc_diagnostics_highlights(doc, theme)), LAMBDA highlights :
        IF is_focused
        THEN merge(highlights, doc_selection_highlights(doc, theme, cursor_is_block))
        ELSE highlights)

\* the documents of the compositor model: lines of "a", at most one
\* diagnostic, on the first char or on the one past the end
ViewTexts == UNION { [1 .. n -> {"a", "\n"}] : n \in 0 .. MaxGraphemes }

Diagnostics(text) ==
    {<<>>} \cup { <<[start |-> d, end |-> d + 1]>> : d \in {0, Len(text)} }

Documents ==
    UNION { [ text : {text}, syntax : {None, Some(Len(text) \div 2)},
              diagnostics : Diagnostics(text),
              selection : {selection}, primary_idx : 1 .. Len(selection),
              mode : {"Normal"} ] : <<text, selection>> \in
                  UNION { {text} \X Selections(text) : text \in ViewTexts } }


\* graphemes::grapheme_width
grapheme_width(g) == IF g = "W" THEN 2 ELSE 1

\* Surface::set_string: the cells of row y that a string of clusters of the
\* given display widths touches from column x on, up to the right edge of the
\* surface
RECURSIVE set_string(_, _, _, _, _)
set_string(cells, surface_width, x, y, widths) ==
    IF widths = <<>> THEN cells
    ELSE IF x >= surface_width \/ Head(widths) > surface_width - x THEN cells
    ELSE set_string(cells \cup {<<c, y>> : c \in x .. x + Head(widths) - 1},
                    surface_width, x + Head(widths), y, Tail(widths))

\* RopeSlice::get_slice, with the fallback of render_text_highlights
get_slice(text, start, end) ==
    IF start <= end /\ end <= Len(text) THEN SubSeq(text, start + 1, end) ELSE <<" ">>

\* the state of render_text_highlights: the style stack, the visual column
\* and line, the cells written, one step per cluster met, and whether the
\* loop over the events was left
RenderStart ==
    [ spans |-> <<>>, visual_x |-> 0, line |-> 0, cells |-> {},
      steps |-> <<>>, stopped |-> FALSE, dropped |-> 0 ]

Step(st, grapheme, width, out_of_bounds) ==
    [ grapheme |-> grapheme, width |-> width, visual_x |-> st.visual_x,
      line |-> st.line, written |-> ~out_of_bounds, spans |-> st.spans ]

\* the body of the loop over the clusters of a Source event
render_grapheme(st, view, grapheme) ==
    With(\/ st.visual_x < view.offset.col
         \/ st.visual_x >= view.viewport.width + view.offset.col,
         LAMBDA out_of_bounds :
        IF grapheme = "\n"
        THEN [st EXCEPT
                !.cells = IF out_of_bounds THEN st.cells
                          ELSE set_string(st.cells, view.surface_width,
                                          view.viewport.x + st.visual_x - view.offset.col,
                                          view.viewport.y + st.line, <<1>>),
                !.steps = Append(st.steps, Step(st, grapheme, 0, out_of_bounds)),
                !.visual_x = 0,
                !.line = st.line + 1,
                !.stopped = st.line + 1 >= view.viewport.height]
        ELSE With(IF grapheme = "\t" THEN [n \in 1 .. view.doc.tab_width |-> 1]
                  ELSE <<grapheme_width(grapheme)>>, LAMBDA widths :
             With(IF grapheme = "\t" THEN view.doc.tab_width
                  ELSE grapheme_width(grapheme), LAMBDA width :
                [st EXCEPT
                    !.cells = IF out_of_bounds THEN st.cells
                              ELSE set_string(st.cells, view.surface_width,
                                              view.viewport.x + st.visual_x - view.offset.col,
                                              view.viewport.y + st.line, widths),
                    !.steps = Append(st.steps, Step(st, grapheme, width, out_of_bounds)),
                    !.visual_x = Min(st.visual_x + width, 65535)])))

RECURSIVE render_graphemes(_, _, _)
render_graphemes(st, view, graphemes) ==
    IF graphemes = <<>> \/ st.stopped THEN st
    ELSE render_graphemes(render_grapheme(st, view, Head(graphemes)), view,
                          Tail(graphemes))

\* the body of the loop over the events
render_event(st, view, event) ==
    CASE event.kind = "HighlightStart" -> [st EXCEPT !.spans = Append(st.spans, event.span)]
      [] event.kind = "HighlightEnd" ->
            [st EXCEPT !.spans = IF st.spans = <<>> THEN <<>>
                                 ELSE SubSeq(st.spans, 1, Len(st.spans) - 1)]
      [] OTHER -> render_graphemes(st, view,
                                   get_slice(view.doc.text, event.start, event.end))

\* EditorView::render_text_highlights; dropped counts the events never read
RECURSIVE render_text_highlights(_, _, _)
render_text_highlights(st, view, highlights) ==
    IF st.stopped THEN [st EXCEPT !.dropped = Len(highlights)]
    ELSE IF highlights = <<>> THEN st
    ELSE render_text_highlights(render_event(st, view, Head(highlights)), view,
                                Tail(highlights))

\* the texts and views of the renderer model
RenderTexts == UNION { [1 .. n -> Graphemes \ {"e'"}] : n \in 0 .. MaxTextLen }

Views ==
    UNION { [ doc : [ text : {text}, syntax : {None, Some(Len(text) \div 2)},
                      tab_width : TabWidths ],
              offset : [row : 0 .. len_lines(text) - 1, col : 0 .. MaxOffsetCol],
              viewport : [x : {0}, y : {0}, width : 0 .. MaxCols, height : 0 .. MaxRows],
              surface_width : {MaxCols, MaxCols + 2} ] : text \in RenderTexts }

(***************************************************************************)
(* EditorView actions.  key_event records the last event: the key, what    *)
(* the state was when it arrived, and what the overlay answered.           *)
(***************************************************************************)
NoEvent ==
    [ kind |-> "none", key |-> KeyEsc, mode |-> "Normal", count |-> None,
      on_next_key |-> None, completion |-> None, pending |-> <<>>,
      last_insert |-> <<"normal_mode", <<>>>>,
      selected_register |-> None,
      \* the count and the register when the pending sequence, if any, started
      seq_count |-> None, seq_register |-> None,
      overlay |-> "Ignored", update_empty |-> FALSE, result |-> "None" ]

NoDigits == [from_unset |-> TRUE, digits |-> <<>>]

Before(st, kind) ==
    [NoEvent EXCEPT !.kind = kind, !.mode = st.mode, !.count = st.count,
                    !.on_next_key = st.on_next_key, !.completion = st.completion,
                    !.pending = st.pending, !.last_insert = st.last_insert,
                    !.selected_register = st.selected_register,
                    !.seq_count = IF st.pending = <<>> THEN st.count
                                  ELSE key_event.seq_count,
                    !.seq_register = IF st.pending = <<>> THEN st.selected_register
                                     ELSE key_event.seq_register]

\* the key goes to the count arm of command_mode
IsCounted(st, key) ==
    st.on_next_key = None /\ st.mode # "Insert" /\ is_digit_key(key)

\* the key goes to the Mode::Insert arm of handle_event
IsInsertKey(st) == st.on_next_key = None /\ st.mode = "Insert"

\* the overlay is asked only when there is one
OverlayChoices(st) ==
    IF IsInsertKey(st) /\ st.completion # None THEN OverlayResults ELSE {"Ignored"}

UpdateChoices(st, overlay) ==
    IF IsInsertKey(st) /\ st.completion # None /\ overlay = "Ignored"
    THEN BOOLEAN ELSE {FALSE}

Running == ~editor_view.panicked /\ ~editor_view.should_close

EditorInit ==
    /\ editor_view = EditorView_new
    /\ key_event = NoEvent
    /\ digit_run = NoDigits
    /\ popup = Popup_new([vertical |-> 0, horizontal |-> 0])
    /\ popup_call = Call("new", Popup_new([vertical |-> 0, horizontal |-> 0]))
    /\ popup_layer = TRUE
    /\ ScreenIdle

KeyEvent(Keys) ==
    /\ Running
    /\ \E raw \in Keys, overlay \in OverlayChoices(editor_view) :
       \E update_empty \in UpdateChoices(editor_view, overlay) :
       \E r \in {EditorView_handle_key(editor_view, raw, overlay, update_empty)} :
          LET key     == canonicalize_key(raw)
              counted == IsCounted(editor_view, key)
          IN  /\ counted => /\ Len(digit_run.digits) < MaxDigits
                            /\ r.st.count # None => r.st.count[1] <= MaxCount
              /\ IsInsertKey(editor_view) => Len(editor_view.last_insert[2]) < MaxKeys
              /\ editor_view' = r.st
              /\ key_event' = [Before(editor_view, "key") EXCEPT
                                   !.key = key, !.overlay = overlay,
                                   !.update_empty = update_empty, !.result = r.result]
              /\ digit_run' = IF ~counted THEN NoDigits
                              ELSE IF digit_run.digits = <<>>
                              THEN [from_unset |-> editor_view.count = None,
                                    digits |-> <<to_digit(key.code)>>]
                              ELSE [digit_run EXCEPT !.digits = Append(@, to_digit(key.code))]
    /\ UNCHANGED <<popup_vars, screen_vars>>

\* a completion response arrives while the document is in Insert mode
SetCompletion ==
    /\ Running
    /\ editor_view.mode = "Insert"
    /\ \E is_empty \in BOOLEAN :
          /\ editor_view' = set_completion(editor_view, is_empty)
          /\ key_event' = [Before(editor_view, "set_completion") EXCEPT
                               !.update_empty = is_empty]
    /\ UNCHANGED <<digit_run, popup_vars, screen_vars>>

ClearCompletion ==
    /\ Running
    /\ editor_view.completion # None
    /\ editor_view' = clear_completion(editor_view)
    /\ key_event' = Before(editor_view, "clear_completion")
    /\ UNCHANGED <<digit_run, popup_vars, screen_vars>>

DispatchNext ==
    \/ KeyEvent(IF IsInsertKey(editor_view) THEN InsertKeys ELSE DispatchKeys)
    \/ SetCompletion
    \/ ClearCompletion

DispatchSpec == EditorInit /\ [][DispatchNext]_vars

CountNext == KeyEvent(CountKeys)

\* the next-key handler of select_register stores the register it was given
SelectRegister ==
    /\ Running
    /\ editor_view.mode # "Insert"
    /\ editor_view.pending = <<>>
    /\ editor_view' = [editor_view EXCEPT !.selected_register = Some("a")]
    /\ key_event' = Before(editor_view, "select_register")
    /\ UNCHANGED <<digit_run, popup_vars, screen_vars>>

\* a register is selected between the keys of Normal and Select mode
RegisterNext ==
    \/ SelectRegister
    \/ KeyEvent({KeyG, KeyI, KeyEsc, Key("1", "NONE"), Key("1", "ALT")})

RegisterSpec == EditorInit /\ [][RegisterNext]_vars

CountSpec == EditorInit /\ [][CountNext]_vars

(***************************************************************************)
(* Mouse actions.  mouse_event records the last event and the views        *)
(* before it.                                                              *)
(***************************************************************************)
MouseInit ==
    /\ \E scroll_lines \in (0 - MaxScrollLines) .. MaxScrollLines :
          tree = Tree_new(scroll_lines)
    /\ mouse_event = NoMouse
    /\ frame = NoFrame
    /\ editor_view = EditorView_new
    /\ key_event = NoEvent
    /\ digit_run = NoDigits
    /\ popup = Popup_new([vertical |-> 0, horizontal |-> 0])
    /\ popup_call = Call("new", Popup_new([vertical |-> 0, horizontal |-> 0]))
    /\ popup_layer = TRUE

MouseEvent(Kinds, Rows, Columns, Modifiers) ==
    /\ \E kind \in Kinds, row \in Rows, column \in Columns, modifiers \in Modifiers :
       \E r \in {handle_mouse_event(tree, kind, row, column, modifiers)} :
          /\ \A v \in ViewIds : Len(r.tree.selection[v].ranges) <= MaxRanges
          /\ tree' = r.tree
          /\ mouse_event' = [ kind |-> kind, row |-> row, column |-> column,
                              modifiers |-> modifiers,
                              under |-> find_view(tree, row, column),
                              result |-> r.result, executed |-> r.executed,
                              before |-> tree ]
    /\ UNCHANGED <<popup_vars, editor_vars, frame>>

MouseNext == MouseEvent(MouseKinds, {0}, PointerColumns, {"NONE"})

MouseSpec == MouseInit /\ [][MouseNext]_vars

\* the buttons pressed, dragged and released on three rows of the second
\* view or on no view, with the middle-click-paste setting either way
ClickInit ==
    /\ \E middle_click_paste \in BOOLEAN :
          tree = [Tree_new(0) EXCEPT !.middle_click_paste = middle_click_paste]
    /\ mouse_event = NoMouse
    /\ frame = NoFrame
    /\ editor_view = EditorView_new
    /\ key_event = NoEvent
    /\ digit_run = NoDigits
    /\ popup = Popup_new([vertical |-> 0, horizontal |-> 0])
    /\ popup_call = Call("new", Popup_new([vertical |-> 0, horizontal |-> 0]))
    /\ popup_layer = TRUE

ClickNext ==
    MouseEvent({"DownLeft", "DragLeft", "UpLeft", "UpMiddle"}, {0, 1, 2}, ViewIds,
               {"NONE", "ALT"})

ClickSpec == ClickInit /\ [][ClickNext]_vars

\* sessions a mouse or resize event can arrive in: a fresh one, one with a
\* count typed, one waiting for the key of a one-shot handler and one with a
\* completion open in Insert mode; the last three show a status message
Sessions ==
    { EditorView_new,
      [EditorView_new EXCEPT !.count = Some(1), !.status_msg = Some("status")],
      [EditorView_new EXCEPT !.on_next_key = Some("put_char"),
                             !.last_insert = <<"insert_mode", <<Key("1", "NONE"), KeyEsc>>>>,
                             !.status_msg = Some("status")],
      [EditorView_new EXCEPT !.mode = "Insert",
                             !.last_insert = <<"insert_mode", <<Key("1", "NONE")>>>>,
                             !.completion = Some("completion"),
                             !.savepoint = Some("savepoint"),
                             !.status_msg = Some("status")] }

SessionInit ==
    /\ editor_view \in Sessions
    /\ \E middle_click_paste \in BOOLEAN :
          tree = [Tree_new(1) EXCEPT !.middle_click_paste = middle_click_paste]
    /\ mouse_event = NoMouse
    /\ frame = NoFrame
    /\ key_event = NoEvent
    /\ digit_run = NoDigits
    /\ popup = Popup_new([vertical |-> 0, horizontal |-> 0])
    /\ popup_call = Call("new", Popup_new([vertical |-> 0, horizontal |-> 0]))
    /\ popup_layer = TRUE

\* a resize or mouse event through handle_event
SessionEvent(Kinds, Rows, Columns) ==
    /\ \E kind \in Kinds, row \in Rows, column \in Columns :
       \E r \in {EditorView_handle_event(editor_view, tree, kind, row, column, "NONE")} :
          /\ editor_view' = r.st
          /\ tree' = r.tree
          /\ mouse_event' = [ kind |-> kind, row |-> row, column |-> column,
                              modifiers |-> "NONE",
                              under |-> find_view(tree, row, column),
                              result |-> r.result, executed |-> r.executed,
                              before |-> tree ]
    /\ UNCHANGED <<popup_vars, key_event, digit_run, frame>>

SessionNext ==
    SessionEvent({"Resize", "DownLeft", "DragLeft", "ScrollDown", "UpLeft", "UpMiddle", "Moved"},
                 {0}, PointerColumns)

SessionSpec == SessionInit /\ [][SessionNext]_vars

(***************************************************************************)
(* Popup actions.  popup_call records the last call: its inputs, the       *)
(* popup before it and what it returned.                                   *)
(***************************************************************************)
\* the cursor at a call: one of Cursors while no anchor is pinned, one of
\* Moved afterwards (get_or_insert_with reads it only while no anchor is pinned)
CursorsRead(self, Cursors, Moved) == IF self.position = None THEN Cursors ELSE Moved

\* popup_call keeps an input of a call where that input is followed: the cursor
\* after the anchor is pinned, the content's result of an event
Tracked(input, Followed) == IF input \in Followed THEN input ELSE None

PopupInit ==
    /\ \E m \in 0 .. MaxMargin :
          popup = Popup_new([vertical |-> m, horizontal |-> m])
    /\ popup_call = Call("new", Popup_new([vertical |-> 0, horizontal |-> 0]))
    /\ popup_layer = TRUE
    /\ ScreenIdle
    /\ editor_view = EditorView_new
    /\ key_event = NoEvent
    /\ digit_run = NoDigits

SetPosition(Cursors) ==
    /\ popup_layer
    /\ \E pos \in Cursors :
          /\ popup' = Popup_set_position(popup, pos)
          /\ popup_call' = Call("set_position", popup)
    /\ UNCHANGED <<popup_layer, editor_vars, screen_vars>>

GetRelPosition(Viewports, Cursors, Moved) ==
    /\ popup_layer
    /\ \E viewport \in Viewports, cursor \in CursorsRead(popup, Cursors, Moved) :
          LET r == Popup_get_rel_position(popup, viewport, cursor)
          IN  /\ popup' = r.self
              /\ popup_call' = [Call("get_rel_position", popup) EXCEPT
                                   !.viewport = viewport, !.rel = r.rel,
                                   !.cursor = Tracked(cursor, Moved)]
    /\ UNCHANGED <<popup_layer, editor_vars, screen_vars>>

Scroll ==
    /\ popup_layer
    /\ \E offset \in 0 .. MaxScrollArg, direction \in BOOLEAN :
          /\ popup' = Popup_scroll(popup, offset, direction)
          /\ popup_call' = [Call("scroll", popup) EXCEPT
                               !.offset = offset, !.direction = direction]
    /\ UNCHANGED <<popup_layer, editor_vars, screen_vars>>

RequiredSize(Viewports, ChildSizes) ==
    /\ popup_layer
    /\ \E viewport \in Viewports, child \in ChildSizes :
          /\ popup' = Popup_required_size(popup, viewport, child)
          /\ popup_call' = [Call("required_size", popup) EXCEPT
                               !.viewport = viewport, !.child = child]
    /\ UNCHANGED <<popup_layer, editor_vars, screen_vars>>

Render(Viewports, ChildSizes, Cursors, Moved) ==
    /\ popup_layer
    /\ \E viewport \in Viewports, child \in ChildSizes,
          cursor \in CursorsRead(popup, Cursors, Moved) :
          LET r == Popup_render(popup, viewport, child, cursor)
          IN  /\ popup' = r.self
              /\ popup_call' = [Call("render", popup) EXCEPT
                                   !.viewport = viewport, !.child = child,
                                   !.rel = r.rel, !.cursor = Tracked(cursor, Moved)]
    /\ UNCHANGED <<popup_layer, editor_vars, screen_vars>>

\* Followed: the content results popup_call keeps
PopupHandleEvent(Followed) ==
    /\ popup_layer
    /\ \E event \in PopupEvents, content \in ContentResults :
          LET r == Popup_handle_event(popup, event, content)
          IN  /\ popup' = r.self
              /\ popup_call' = [Call("handle_event", popup) EXCEPT
                                   !.event = event, !.result = r.result,
                                   !.forwarded = r.forwarded,
                                   !.content = Tracked(content, Followed),
                                   !.offset = popup.size[2] \div 2,
                                   !.direction = (event = "Ctrl-d")]
              \* the close callback pops the popup's layer off the compositor
              /\ popup_layer' = ~r.close
    /\ UNCHANGED <<editor_vars, screen_vars>>

PopupNext ==
    \/ SetPosition(VCursors)
    \/ GetRelPosition(VViewports, VCursors, {None})
    \/ Scroll
    \/ RequiredSize(VViewports, VChildSizes)
    \/ Render(VViewports, VChildSizes, VCursors, {None})
    \/ PopupHandleEvent({})

PopupSpec == PopupInit /\ [][PopupNext]_vars

PlacementNext ==
    \/ SetPosition(HCursors)
    \/ GetRelPosition(HViewports, HCursors, {None})
    \/ RequiredSize(HViewports, HChildSizes)
    \/ Render(HViewports, HChildSizes, HCursors, {None})

PlacementSpec == PopupInit /\ [][PlacementNext]_vars

\* the anchor: the cursor moves between the calls, the viewport is wide and
\* high, the child small
PinNext ==
    \/ SetPosition(VCursors \cup HCursors)
    \/ GetRelPosition([width : {WideW}, height : {TallH}], VCursors \cup HCursors,
                      VCursors \cup HCursors)
    \/ Render([width : {WideW}, height : {TallH}], {<<1, 1>>}, VCursors \cup HCursors,
              VCursors \cup HCursors)

PinSpec == PopupInit /\ [][PinNext]_vars

\* event routing: the content's result is followed through handle_event
EventNext ==
    \/ Scroll
    \/ RequiredSize([width : {WideW}, height : {TallH}], VChildSizes)
    \/ PopupHandleEvent(ContentResults)

EventSpec == PopupInit /\ [][EventNext]_vars

(***************************************************************************)
(* Renderer actions.  frame records the last call: its inputs and what it  *)
(* produced.                                                               *)
(***************************************************************************)
RenderIdle ==
    /\ tree = Tree_new(0)
    /\ mouse_event = NoMouse
    /\ editor_view = EditorView_new
    /\ key_event = NoEvent
    /\ digit_run = NoDigits
    /\ popup = Popup_new([vertical |-> 0, horizontal |-> 0])
    /\ popup_call = Call("new", Popup_new([vertical |-> 0, horizontal |-> 0]))
    /\ popup_layer = TRUE

\* a document, its selection, a theme and a cursor shape, before rendering
SelectionInit ==
    /\ RenderIdle
    /\ \E text \in Texts, mode \in Modes, theme \in Themes, cursorkind \in CursorKinds :
       \E selection \in Selections(text) :
       \E primary_idx \in 1 .. Len(selection) :
          frame = [ op |-> "document",
                    doc |-> [ text |-> text, selection |-> selection,
                              primary_idx |-> primary_idx, mode |-> mode ],
                    theme |-> theme, cursorkind |-> cursorkind ]

DocSelectionHighlights ==
    /\ frame.op = "document"
    /\ frame' = [ op |-> "doc_selection_highlights",
                  doc |-> frame.doc, theme |-> frame.theme,
                  cursorkind |-> frame.cursorkind,
                  pushed |-> selection_highlights(frame.doc, frame.theme,
                                                  frame.cursorkind = "Block"),
                  spans |-> doc_selection_highlights(frame.doc, frame.theme,
                                                     frame.cursorkind = "Block") ]
    /\ UNCHANGED <<popup_vars, editor_vars, tree, mouse_event>>

SelectionNext == DocSelectionHighlights

SelectionSpec == SelectionInit /\ [][SelectionNext]_vars

\* a document in a view, before rendering
RenderInit ==
    /\ RenderIdle
    /\ \E view \in Views : frame = [op |-> "view", view |-> view]

RenderTextHighlights ==
    /\ frame.op = "view"
    /\ \E highlights \in {doc_syntax_highlights(frame.view.doc, frame.view.offset,
                                                frame.view.viewport.height)} :
          frame' = [ op |-> "render_text_highlights", view |-> frame.view,
                     highlights |-> highlights,
                     out |-> render_text_highlights(RenderStart, frame.view, highlights) ]
    /\ UNCHANGED <<popup_vars, editor_vars, tree, mouse_event>>

RenderNext == RenderTextHighlights

RenderSpec == RenderInit /\ [][RenderNext]_vars

\* a document in a view, focused or not, before its highlights are composed;
\* the selection and the cursor shape are read for the focused view only and
\* are left at their defaults for the others
ComposeInit ==
    /\ RenderIdle
    /\ \E doc \in Documents, height \in 0 .. MaxRows, is_focused \in BOOLEAN,
          cursorkind \in CursorKinds :
       \E row \in 0 .. len_lines(doc.text) - 1 :
          /\ is_focused \/ (doc.selection = <<[anchor |-> 0, head |-> 0]>>
                            /\ cursorkind = "Block")
          /\ frame = [ op |-> "focus", doc |-> doc,
                    offset |-> [row |-> row, col |-> 0], height |-> height,
                    is_focused |-> is_focused, cursorkind |-> cursorkind ]

RenderView ==
    /\ frame.op = "focus"
    /\ \E theme \in {{"ui.selection", "ui.cursor", "ui.cursor.primary",
                      "ui.selection.primary"}} :
          frame' = [ op |-> "render_view", doc |-> frame.doc, offset |-> frame.offset,
                     height |-> frame.height, is_focused |-> frame.is_focused,
                     cursorkind |-> frame.cursorkind,
                     range |-> viewport_range(frame.doc.text, frame.offset, frame.height),
                     highlights |-> render_view_highlights(frame.doc, frame.offset,
                                        frame.height, theme, frame.is_focused,
                                        frame.cursorkind = "Block") ]
    /\ UNCHANGED <<popup_vars, editor_vars, tree, mouse_event>>

ComposeNext == RenderView

ComposeSpec == ComposeInit /\ [][ComposeNext]_vars

(***************************************************************************)
(* Claims about the popup.                                                 *)
(***************************************************************************)
\* max_offset of the sizes the popup stores
PopupMaxOffset == Max(0, popup.child_size[2] - popup.size[2])

\* C1: after any sequence of scroll and required_size calls the scroll
\* offset lies in [0, max(0, child_height - box_height)], for the sizes
\* stored by the most recent required_size.
C1_ScrollOffsetInRange ==
    /\ popup.scroll >= 0
    /\ popup.scroll <= PopupMaxOffset

\* C1 witness: a forward scroll that was clamped at a positive maximum.
C1_Witness ==
    /\ popup_call.op = "scroll"
    /\ popup_call.direction
    /\ PopupMaxOffset > 0
    /\ popup.scroll = PopupMaxOffset
    /\ popup_call.scroll_before + popup_call.offset > PopupMaxOffset

\* what the claim says a scroll by offset leaves
C2_Expected(before, offset, direction) ==
    IF direction
    THEN Min(before + offset, PopupMaxOffset)
    ELSE Max(0, before - offset)

\* C2: scroll(offset, forward) moves the offset from s to
\* min(s + offset, max_offset), scroll(offset, backward) to max(0, s - offset);
\* Ctrl-d / Ctrl-u scroll by half the box height forward / backward.
C2_ScrollAppliedOnce ==
    /\ popup_call.op = "scroll" =>
          popup.scroll = C2_Expected(popup_call.scroll_before, popup_call.offset,
                                     popup_call.direction)
    /\ (popup_call.op = "handle_event" /\ popup_call.event \in {"Ctrl-d", "Ctrl-u"}) =>
          popup.scroll = C2_Expected(popup_call.scroll_before, popup.size[2] \div 2,
                                     popup_call.event = "Ctrl-d")

\* C9: get_rel_position returns rel_x = max(0, c - (c + w - W)) when
\* c + w > W and rel_x = c otherwise; whenever w <= W the box
\* [rel_x, rel_x + w) lies inside [0, W), shifted left no more than needed.
C9_HorizontalPlacement ==
    popup_call.op \in {"get_rel_position", "render"} =>
        LET W == popup_call.viewport.width
            c == popup.position[1].col
            w == popup.size[1]
            x == popup_call.rel[1]
        IN  /\ x = IF c + w > W THEN Max(0, c - (c + w - W)) ELSE c
            /\ w <= W => /\ 0 <= x
                         /\ x + w <= W
                         /\ x = Min(c, W - w)

\* C9 witness: a box that fits the viewport and had to be shifted left,
\* but not to column 0.
C9_Witness ==
    /\ popup_call.op \in {"get_rel_position", "render"}
    /\ popup.size[1] > 0
    /\ popup.size[1] <= popup_call.viewport.width
    /\ popup.position[1].col + popup.size[1] > popup_call.viewport.width
    /\ popup_call.rel[1] > 0
    /\ popup_call.rel[1] < popup.position[1].col

\* C25: get_rel_position places the box directly below the anchor row r
\* (rel_y = r + 1) whenever r + 1 + h <= H, and above it (rel_y = max(0, r - h))
\* only when it does not fit below.
C25_VerticalPlacement ==
    popup_call.op \in {"get_rel_position", "render"} =>
        LET H == popup_call.viewport.height
            r == popup.position[1].row
            h == popup.size[2]
            y == popup_call.rel[2]
        IN  /\ r + 1 + h <= H => y = r + 1
            /\ r + 1 + h > H => y = Max(0, r - h)

\* C25 witness: a box of some height that ends exactly on the last row of
\* the viewport and is placed above the anchor.
C25_Witness ==
    /\ popup_call.op \in {"get_rel_position", "render"}
    /\ popup.size[2] > 0
    /\ popup.position[1].row > 0
    /\ popup.position[1].row + popup.size[2] = popup_call.viewport.height
    /\ popup_call.rel[2] = Max(0, popup.position[1].row - popup.size[2])

\* C26: get_rel_position and render pin an unset anchor to the cursor they
\* read (the origin if there is none) and leave a set anchor as it is,
\* wherever the cursor is by then; the place returned is that of the anchor.
C26_AnchorPinned ==
    [][popup_call'.op \in {"get_rel_position", "render"} =>
          /\ popup'.position =
                IF popup.position = None
                THEN Some(unwrap_or(popup_call'.cursor, Position_default))
                ELSE popup.position
          /\ popup_call'.rel[1] <= popup'.position[1].col
          /\ popup_call'.rel[2] \in {popup'.position[1].row + 1,
                                     Max(0, popup'.position[1].row - popup'.size[2])}]_vars

\* C26 witness: a call placed the popup at its anchor while the cursor was
\* somewhere else.
C26_Witness ==
    /\ popup_call.op \in {"get_rel_position", "render"}
    /\ popup_call.cursor # None
    /\ popup_call.cursor # popup.position
    /\ popup.position # Some(Position_default)
    /\ popup_call.rel = <<popup.position[1].col, popup.position[1].row + 1>>

\* C27: Esc and Ctrl-c are consumed and close the popup's layer, Ctrl-d and
\* Ctrl-u are consumed as scrolls by half the box height, none of the four
\* reaching the content; any other key reaches the content and its result is
\* returned; resize and mouse events are Ignored, reach nothing and leave
\* the popup as it was.
C27_EventRouting ==
    [][popup_call'.op = "handle_event" =>
          /\ popup_call'.event \in {"Esc", "Ctrl-c"} =>
                /\ popup_call'.result = "Consumed"
                /\ ~popup_call'.forwarded
                /\ ~popup_layer'
                /\ popup' = popup
          /\ popup_call'.event \in {"Ctrl-d", "Ctrl-u"} =>
                /\ popup_call'.result = "Consumed"
                /\ ~popup_call'.forwarded
                /\ popup_layer'
                /\ popup' = Popup_scroll(popup, popup.size[2] \div 2,
                                         popup_call'.event = "Ctrl-d")
          /\ popup_call'.event = "OtherKey" =>
                /\ popup_call'.forwarded
                /\ popup_call'.result = popup_call'.content
                /\ popup_layer'
                /\ popup' = popup
          /\ popup_call'.event \in {"Resize", "Mouse"} =>
                /\ popup_call'.result = "Ignored"
                /\ ~popup_call'.forwarded
                /\ popup_layer'
                /\ popup' = popup]_vars

\* C27 witness: a mouse event was Ignored by a scrolled popup whose content
\* would have consumed it.
C27_Witness ==
    /\ popup_call.op = "handle_event"
    /\ popup_call.event = "Mouse"
    /\ popup_call.content = "Consumed"
    /\ popup_call.result = "Ignored"
    /\ popup.scroll > 0
    /\ popup_layer

\* the viewport cap of required_size (unsigned: height - 2 stops at 0)
C10_Cap(viewport) ==
    << Min(POPUP_MAX_WIDTH, viewport.width),
       Min(POPUP_MAX_HEIGHT, Max(0, viewport.height - 2)) >>

\* C10: after every required_size call, and so at every render, the
\* negotiated size is component-wise <= min(viewport cap, child size +
\* 2*margin), the cap being (min(120, width), min(26, height - 2)); the child
\* size stored is the one measured in that call.
C10_SizeWithinCap ==
    popup_call.op \in {"required_size", "render"} =>
        LET cap == C10_Cap(popup_call.viewport)
        IN  /\ popup.child_size = popup_call.child
            /\ popup.size[1] <= Min(cap[1], popup.child_size[1] + 2 * popup.margin.horizontal)
            /\ popup.size[2] <= Min(cap[2], popup.child_size[2] + 2 * popup.margin.vertical)

\* C10 witness: a render whose width is held by the cap and whose height is
\* held by the child, the child having changed since the call before.
C10_Witness ==
    /\ popup_call.op = "render"
    /\ popup.size[1] = POPUP_MAX_WIDTH
    /\ popup.size[1] < popup.child_size[1] + 2 * popup.margin.horizontal
    /\ popup.size[2] = popup.child_size[2] + 2 * popup.margin.vertical
    /\ popup.size[2] < C10_Cap(popup_call.viewport)[2]
    /\ popup.margin.vertical > 0

(***************************************************************************)
(* Claims about the key dispatch.                                          *)
(***************************************************************************)
\* the calls of one kind the last event made, in order
Calls(name) == SelectSeq(editor_view.trace, LAMBDA c : c[1] = name)

\* the last event was a key handled by command_mode (Normal or Select mode,
\* no one-shot handler registered)
InCommandMode ==
    /\ key_event.kind = "key"
    /\ key_event.mode \in {"Normal", "Select"}
    /\ key_event.on_next_key = None

\* the last event was a key handled by the Insert arm (no one-shot handler)
InInsertMode ==
    /\ key_event.kind = "key"
    /\ key_event.mode = "Insert"
    /\ key_event.on_next_key = None

RECURSIVE Pow10(_)
Pow10(n) == IF n = 0 THEN 1 ELSE 10 * Pow10(n - 1)

\* the base-10 value of a digit string
RECURSIVE Base10(_)
Base10(ds) ==
    IF ds = <<>> THEN 0 ELSE Head(ds) * Pow10(Len(ds) - 1) + Base10(Tail(ds))

\* C3: digits d1..dn typed in a row in Normal or Select mode, no handler
\* registered and no count set before, leave the count at the base-10 value
\* of d1..dn (unset if that is 0); a digit is never resolved against the
\* keymap; the count is always unset or positive.
C3_CountAccumulates ==
    /\ (digit_run.digits # <<>> /\ digit_run.from_unset) =>
          editor_view.count = IF Base10(digit_run.digits) = 0
                              THEN None
                              ELSE Some(Base10(digit_run.digits))
    /\ digit_run.digits # <<>> => Calls("keymap_get") = <<>>
    /\ editor_view.count # None => editor_view.count[1] > 0

\* C3 witness: '1', '2', '3' typed in Select mode, the count now 123.
C3_Witness ==
    /\ digit_run = [from_unset |-> TRUE, digits |-> <<1, 2, 3>>]
    /\ key_event.mode = "Select"
    /\ editor_view.count = Some(123)

\* C4 as claimed: every non-digit key handled in Normal or Select mode (no
\* handler registered) while a count is accumulated leaves the count unset.
C4_CountResetByNonDigit ==
    (InCommandMode /\ ~is_digit_key(key_event.key) /\ key_event.count # None) =>
        editor_view.count = None

\* the key was resolved against the mode keymap by command_mode
C4_Resolved ==
    /\ InCommandMode
    /\ ~is_digit_key(key_event.key)
    /\ ~(is_repeat_key(key_event.key) /\ key_event.pending = <<>>)

\* C4 as amended: a non-digit key that command_mode resolves against the
\* mode keymap (any but the repeat key pressed while no sequence is pending)
\* while a count is accumulated leaves the count unset if no key sequence is
\* pending after it.
C4_CountResetWhenResolved ==
    (C4_Resolved /\ key_event.count # None /\ editor_view.pending = <<>>) =>
        editor_view.count = None

\* C4 witness: a count was accumulated, a sequence was pending, and the key
\* that completed the sequence ran its command with the count and unset it.
C4_Witness ==
    /\ C4_Resolved
    /\ key_event.count # None
    /\ key_event.pending # <<>>
    /\ editor_view.pending = <<>>
    /\ \E i \in 1 .. Len(editor_view.trace) :
          /\ editor_view.trace[i][1] = "execute"
          /\ editor_view.trace[i][3] = key_event.count
    /\ editor_view.count = None

\* C5: with a one-shot handler registered when a key arrives, in any
\* mode, the key is consumed through that handler alone: no keymap is
\* resolved, no digit is accumulated, the completion is not offered the key.
C5_OneShotExclusive ==
    (key_event.kind = "key" /\ key_event.on_next_key # None) =>
        /\ Calls("on_next_key") = << <<"on_next_key", key_event.on_next_key[1], key_event.key>> >>
        /\ Calls("keymap_get") = <<>>
        /\ Calls("completion_handle_event") = <<>>
        /\ editor_view.count = key_event.count
        /\ editor_view.pending = key_event.pending

\* the commands the last event executed, in order
Executed == [i \in 1 .. Len(Calls("execute")) |-> Calls("execute")[i][2]]

\* C6: a key event that starts with the document in Normal mode and ends
\* with it in Insert mode leaves the command triggered by the key recorded
\* as the last-insert command and the replay buffer empty.
C6_NormalToInsertRecorded ==
    (key_event.kind = "key" /\ key_event.mode = "Normal" /\ editor_view.mode = "Insert") =>
        /\ ~editor_view.panicked
        /\ Executed # <<>>
        /\ editor_view.last_insert = <<Executed[Len(Executed)], <<>>>>

\* C7: a key event that starts with the document in Insert mode and ends
\* with it in Normal mode leaves no completion overlay active.
C7_InsertToNormalClosesCompletion ==
    (key_event.kind = "key" /\ key_event.mode = "Insert" /\ editor_view.mode = "Normal") =>
        editor_view.completion = None

\* C7 witness: a completion was open, ignored the key and stayed non-empty,
\* and the key left Insert mode.
C7_Witness ==
    /\ key_event.kind = "key"
    /\ key_event.mode = "Insert"
    /\ key_event.completion # None
    /\ key_event.overlay = "Ignored"
    /\ ~key_event.update_empty
    /\ editor_view.mode = "Normal"
    /\ editor_view.completion = None

\* the Insert keymap does not know the key of the last event, and the
\* completion, if any, did not consume it
C8_Unbound ==
    /\ InInsertMode
    /\ key_event.completion # None => key_event.overlay = "Ignored"
    /\ Keymap_get(key_event.pending, "Insert", key_event.key).kind = "NotFound"

InRepeatArm ==
    /\ InCommandMode
    /\ is_repeat_key(key_event.key)
    /\ key_event.pending = <<>>

\* C15: the repeat key pressed in Normal or Select mode while the recorded
\* pair is still the one EditorView::new set leaves the mode, the document,
\* the count and the recorded pair unchanged.
C15_RepeatWithoutRecordIsNoOp ==
    (InRepeatArm /\ key_event.last_insert = EditorView_new.last_insert) =>
        /\ editor_view.mode = key_event.mode
        /\ editor_view.count = key_event.count
        /\ editor_view.last_insert = key_event.last_insert
        /\ Calls("insert_char") = <<>>

\* C16: no key event ends in a panic.
C16_DispatcherNeverAborts == ~editor_view.panicked

\* C17: after set_completion with an empty result, and after an Insert-mode
\* key whose completion update leaves the completion empty, no completion
\* overlay is active.
C17_EmptyCompletionClosed ==
    /\ (key_event.kind = "set_completion" /\ key_event.update_empty) =>
          editor_view.completion = None
    /\ (InInsertMode /\ key_event.update_empty) => editor_view.completion = None

\* C17 as amended: set_completion with an empty result leaves the overlay
\* as it was (none if there was none); an Insert-mode key whose completion
\* update leaves the completion empty closes it.
C17_EmptyCompletionNotInstalled ==
    /\ (key_event.kind = "set_completion" /\ key_event.update_empty) =>
          editor_view.completion = key_event.completion
    /\ (InInsertMode /\ key_event.update_empty) => editor_view.completion = None

\* C17 witness: an empty result arrived while no overlay was open, and none
\* was opened.
C17_Witness ==
    /\ key_event.kind = "set_completion"
    /\ key_event.update_empty
    /\ key_event.completion = None
    /\ editor_view.completion = None

\* the last event made an execute call, and every one carried count
C19_InvokedWith(count) ==
    /\ Calls("execute") # <<>>
    /\ \A i \in 1 .. Len(Calls("execute")) : Calls("execute")[i][3] = count

\* C19: in Normal or Select mode a key that leaves a sequence pending keeps
\* the count; the key that ends the pending sequence unsets it, and the
\* command it completes is invoked with the count accumulated before the
\* sequence started.
C19_CountAcrossSequence ==
    InCommandMode =>
        /\ editor_view.pending # <<>> => editor_view.count = key_event.count
        /\ (key_event.pending # <<>> /\ editor_view.pending = <<>>) =>
              /\ editor_view.count = None
              /\ Calls("execute") # <<>> => C19_InvokedWith(key_event.seq_count)

\* C19 as amended: a non-digit key that leaves a sequence pending keeps the
\* count (a digit typed meanwhile is appended to it); the key that ends the
\* pending sequence unsets it, and the command it completes is invoked with
\* the count accumulated when that key arrived.
C19_CountAtCompletion ==
    InCommandMode =>
        /\ (editor_view.pending # <<>> /\ ~is_digit_key(key_event.key)) =>
              editor_view.count = key_event.count
        /\ (key_event.pending # <<>> /\ editor_view.pending = <<>>) =>
              /\ editor_view.count = None
              /\ Calls("execute") # <<>> => C19_InvokedWith(key_event.count)

\* C19 witness: a digit was typed into a pending sequence, and the command
\* that completed the sequence ran with the longer count.
C19_Witness ==
    /\ InCommandMode
    /\ key_event.pending # <<>>
    /\ editor_view.pending = <<>>
    /\ key_event.seq_count # None
    /\ key_event.count # key_event.seq_count
    /\ C19_InvokedWith(key_event.count)
    /\ editor_view.count = None

\* the keys the last event fed through insert_mode, in order
C20_Replayed ==
    [i \in 1 .. Len(Calls("insert_mode")) |-> Calls("insert_mode")[i][2]]

\* the keymap lookups command_mode made for the last event: those before the
\* cursor was brought back into view
C20_Lookups ==
    SelectSeq(SubSeq(editor_view.trace, 1,
                     CHOOSE n \in 0 .. Len(editor_view.trace) :
                        /\ \A i \in 1 .. n : editor_view.trace[i][1] # "ensure_cursor_in_view"
                        /\ n < Len(editor_view.trace) =>
                              editor_view.trace[n + 1][1] = "ensure_cursor_in_view"),
              LAMBDA c : c[1] = "keymap_get")

C21_Entering == SelectSeq(Executed, LAMBDA cmd : CommandMode(cmd) = "Insert")

\* C21: after every key event that completes, the recorded pair describes
\* the most recent entry into Insert mode: a key that takes the document
\* from Normal or Select mode into Insert mode leaves the command that
\* switched the mode recorded and the replay buffer empty, and a key
\* dispatched in Insert mode is appended to the buffer, the recorded command
\* staying what it was.
C21_RecordedPairCurrent ==
    (key_event.kind = "key" /\ ~editor_view.panicked) =>
        /\ (key_event.mode \in {"Normal", "Select"} /\ editor_view.mode = "Insert"
              /\ C21_Entering # <<>>) =>
              editor_view.last_insert = <<C21_Entering[Len(C21_Entering)], <<>>>>
        /\ InInsertMode =>
              editor_view.last_insert =
                 <<key_event.last_insert[1], Append(key_event.last_insert[2], key_event.key)>>

\* C22: in Insert mode with a completion open and no one-shot handler the
\* key is offered to the completion first and once; a key the completion
\* consumes resolves no keymap, inserts no character and runs no command,
\* and when the consumption carries a callback the completion is closed and
\* the savepoint cleared; a key the completion ignores is resolved against
\* the Insert keymap next.
C22_OverlayFirst ==
    (InInsertMode /\ key_event.completion # None) =>
        /\ Calls("completion_handle_event") =
              << <<"completion_handle_event", key_event.key>> >>
        /\ editor_view.trace[1] = <<"completion_handle_event", key_event.key>>
        /\ key_event.overlay # "Ignored" =>
              /\ Calls("insert_mode") = <<>>
              /\ Calls("keymap_get") = <<>>
              /\ Calls("insert_char") = <<>>
              /\ Calls("execute") = <<>>
        /\ key_event.overlay = "ConsumedClose" =>
              /\ editor_view.completion = None
              /\ editor_view.savepoint = None
        /\ key_event.overlay = "Ignored" =>
              /\ editor_view.trace[2] = <<"insert_mode", key_event.key>>
              /\ editor_view.trace[3] = <<"keymap_get", "Insert", key_event.key>>

\* C22 witness: the completion consumed a printable key and asked to be
\* closed; nothing was inserted and the completion is gone.
C22_Witness ==
    /\ InInsertMode
    /\ key_event.completion # None
    /\ key_event.overlay = "ConsumedClose"
    /\ key_event.key = Key("1", "NONE")
    /\ Calls("insert_char") = <<>>
    /\ editor_view.completion = None
    /\ editor_view.mode = "Insert"

\* the last event was a key the Insert keymap answered with Cancelled
C23_Cancelled ==
    /\ InInsertMode
    /\ key_event.completion # None => key_event.overlay = "Ignored"
    /\ Keymap_get(key_event.pending, "Insert", key_event.key).kind = "Cancelled"

\* the keys the Cancelled result carries
C23_Buffered == Keymap_get(key_event.pending, "Insert", key_event.key).keys

\* what handling one buffered key calls
C23_Handled(k) ==
    IF KeyEvent_char(k) # None
    THEN << <<"insert_char", KeyEvent_char(k)[1]>> >>
    ELSE << <<"keymap_get", "Insert", k>> >> \o
         (IF InsertTrie(<<k>>).kind = "Leaf"
          THEN << <<"execute", InsertTrie(<<k>>).cmds[1], None>> >>
          ELSE <<>>)

\* the lookups, insertions and commands of the last event, in order
C23_Handling ==
    SelectSeq(editor_view.trace,
              LAMBDA c : c[1] \in {"keymap_get", "insert_char", "execute"})

\* C23: when the Insert keymap answers Cancelled with the buffered keys
\* k1..kn, after that lookup the keys are handled in that order, each once:
\* a key with a character is inserted, any other key is looked up in the
\* Insert keymap and its command executed when the lookup matches a command;
\* nothing else is looked up, inserted or executed.
C23_CancelledReplay ==
    C23_Cancelled =>
        C23_Handling =
           << <<"keymap_get", "Insert", key_event.key>> >> \o
           Flatten([i \in 1 .. Len(C23_Buffered) |-> C23_Handled(C23_Buffered[i])])

\* C23 witness: 'g' was pending and Esc cancelled the sequence: 'g' was
\* inserted, then Esc was looked up again and its command left Insert mode.
C23_Witness ==
    /\ C23_Cancelled
    /\ C23_Buffered = <<KeyG, KeyEsc>>
    /\ Calls("insert_char") = << <<"insert_char", "g">> >>
    /\ Executed = <<"normal_mode">>
    /\ editor_view.mode = "Normal"

\* where the last event made its first call of a kind (0: it made none)
C24_At(name) ==
    IF Calls(name) = <<>> THEN 0
    ELSE CHOOSE i \in 1 .. Len(editor_view.trace) :
            /\ editor_view.trace[i][1] = name
            /\ \A j \in 1 .. i - 1 : editor_view.trace[j][1] # name

\* the calls that run the key: handler, completion, keymap, commands
C24_Execution ==
    {"on_next_key", "completion_handle_event", "insert_mode", "keymap_get",
     "execute", "insert_char"}

\* the dispatch follows the mode read when the key arrived
C24_ModeRead ==
    /\ InInsertMode => editor_view.trace[1][1] \in {"completion_handle_event", "insert_mode"}
    /\ (InCommandMode /\ ~is_digit_key(key_event.key) /\ ~is_repeat_key(key_event.key)) =>
          editor_view.trace[1] = <<"keymap_get", key_event.mode, key_event.key>>

\* the mode transitions compare the mode read when the key arrived with the
\* mode after the commands, and act on the pair
C24_Compared ==
    C24_At("mode_transitions") > 0 =>
        /\ editor_view.trace[C24_At("mode_transitions")] =
              <<"mode_transitions", key_event.mode, editor_view.mode>>
        /\ (key_event.mode = "Normal" /\ editor_view.mode = "Insert") =>
              editor_view.trace[C24_At("mode_transitions") + 1] =
                 <<"keymap_get", "Normal", key_event.key>>
        /\ (key_event.mode = "Insert" /\ editor_view.mode = "Normal") =>
              editor_view.completion = None

C31_Registered ==
    SelectSeq([i \in 1 .. Len(Executed) |-> CommandHandler(Executed[i])],
              LAMBDA h : h # None)

\* C31: the handler registered when a key arrives is called for that key,
\* once, and no handler is called for a key that arrives with none
\* registered; after the key a handler is registered exactly when a command
\* of that key registered one, and it is the one registered last; an event
\* that is not a key leaves the registered handler as it was.
C31_HandlerSingleUse ==
    /\ key_event.kind = "key" =>
          /\ Calls("on_next_key") =
                IF key_event.on_next_key = None THEN <<>>
                ELSE << <<"on_next_key", key_event.on_next_key[1], key_event.key>> >>
          /\ editor_view.on_next_key =
                IF C31_Registered = <<>> THEN None
                ELSE C31_Registered[Len(C31_Registered)]
          /\ editor_view.cx_on_next_key_callback = None
    /\ key_event.kind \in {"set_completion", "clear_completion"} =>
          editor_view.on_next_key = key_event.on_next_key

\* C31 as stated: as above, and every handler a command registers during a
\* key event is the one called for the next key: none is dropped uncalled,
\* so the commands of one event register at most one handler.
C31_NoHandlerDiscarded ==
    /\ C31_HandlerSingleUse
    /\ key_event.kind = "key" => Len(C31_Registered) <= 1

\* C31 witness: a key arrived with a handler registered, was given to it and
\* left no handler registered.
C31_Witness ==
    /\ key_event.kind = "key"
    /\ key_event.on_next_key = Some("put_char")
    /\ Calls("on_next_key") = << <<"on_next_key", "put_char", key_event.key>> >>
    /\ editor_view.on_next_key = None

\* C32: a repeat key taken by the repeat arm that ends in the non-Insert mode
\* it started in leaves the recorded pair as it was, and what it executed and
\* replayed is the pair that stays recorded, so that the next repeat key
\* replays the same command and keys.
C32_RepeatIsRepeatable ==
    (InRepeatArm /\ editor_view.mode = key_event.mode) =>
        /\ editor_view.last_insert = key_event.last_insert
        /\ editor_view.trace[1] = <<"execute", editor_view.last_insert[1], None>>
        /\ C20_Replayed = editor_view.last_insert[2]

\* C32 witness: the repeat key, pressed in Normal mode, entered Insert mode,
\* replayed a character and the key that leaves Insert mode, and the pair is
\* still recorded.
C32_Witness ==
    /\ InRepeatArm
    /\ key_event.mode = "Normal"
    /\ editor_view.mode = "Normal"
    /\ key_event.last_insert = <<"insert_mode", <<Key("1", "NONE"), KeyEsc>>>>
    /\ Calls("insert_char") = << <<"insert_char", "1">> >>
    /\ editor_view.last_insert = key_event.last_insert

\* C33: the savepoint set_completion creates exists only while a completion
\* is open: whenever the completion is gone, through the close callback, an
\* empty update, clear_completion or a key that leaves Insert mode, the
\* savepoint is gone too.
C33_SavepointFollowsCompletion ==
    editor_view.savepoint # None => editor_view.completion # None

\* the last event was a key resolved against the keymap of Normal or Select
\* mode
C35_Resolved ==
    /\ InCommandMode
    /\ ~is_digit_key(key_event.key)
    /\ ~InRepeatArm

\* C35: a register selected before a multi-key sequence stays selected while
\* the sequence is pending, and the command that completes the sequence is
\* invoked with the register selected when the sequence started; the key
\* that completes the sequence is the one that consumes the selection.
C35_RegisterReachesCommand ==
    C35_Resolved =>
        /\ editor_view.pending # <<>> =>
              editor_view.selected_register = key_event.selected_register
        /\ (key_event.pending # <<>> /\ Executed # <<>>) =>
              /\ editor_view.cx_register = key_event.seq_register
              /\ editor_view.selected_register = None

(***************************************************************************)
(* Claims about the mouse.                                                 *)
(***************************************************************************)
\* the last event was a wheel event
InWheel == mouse_event.kind \in {"ScrollUp", "ScrollDown"}

\* C18: after a wheel event the focused view is the one focused before it;
\* with the pointer over a view only that view is scrolled, with the
\* pointer over no view the event is ignored and nothing is scrolled.
C18_WheelKeepsFocus ==
    InWheel =>
        /\ tree.focus = mouse_event.before.focus
        /\ tree.selection = mouse_event.before.selection
        /\ mouse_event.under = None =>
              /\ mouse_event.result = "Ignored"
              /\ tree.offset = mouse_event.before.offset
        /\ mouse_event.under # None =>
              /\ mouse_event.result = "Consumed"
              /\ \A v \in ViewIds \ {mouse_event.under[1]} :
                    tree.offset[v] = mouse_event.before.offset[v]

\* C18 witness: the wheel scrolled a view that is not the focused one.
C18_Witness ==
    /\ InWheel
    /\ mouse_event.under # None
    /\ mouse_event.under[1] # mouse_event.before.focus
    /\ tree.offset[mouse_event.under[1]] # mouse_event.before.offset[mouse_event.under[1]]
    /\ tree.focus = mouse_event.before.focus

\* the last event was a left-button-down
InLeftDown == mouse_event.kind = "DownLeft"

\* the position under the pointer of the last event, in the view it hit
C28_Pos ==
    pos_at_screen_coords(mouse_event.before, mouse_event.under[1],
                         mouse_event.row, mouse_event.column)[1]

\* C28: a left-button-down inside a view sets that view's selection to the
\* single point under the pointer, or with the Alt modifier appends that
\* point to the view's selection, leaves the other views' selections alone,
\* focuses the view and is Consumed; a left-button-down inside no view is
\* Ignored and changes neither a selection nor the focus.
C28_LeftClick ==
    InLeftDown =>
        /\ mouse_event.under # None =>
              /\ mouse_event.result = "Consumed"
              /\ tree.focus = mouse_event.under[1]
              /\ tree.selection[mouse_event.under[1]].ranges =
                    IF mouse_event.modifiers = "ALT"
                    THEN Append(mouse_event.before.selection[mouse_event.under[1]].ranges,
                                [anchor |-> C28_Pos, head |-> C28_Pos])
                    ELSE << [anchor |-> C28_Pos, head |-> C28_Pos] >>
              /\ \A v \in ViewIds \ {mouse_event.under[1]} :
                    tree.selection[v] = mouse_event.before.selection[v]
        /\ mouse_event.under = None =>
              /\ mouse_event.result = "Ignored"
              /\ tree = mouse_event.before

\* C28 witness: an Alt-click on the view that was not focused added a second
\* point to its selection and focused it.
C28_Witness ==
    /\ InLeftDown
    /\ mouse_event.modifiers = "ALT"
    /\ mouse_event.under = Some(2)
    /\ mouse_event.before.focus = 1
    /\ tree.focus = 2
    /\ tree.selection[2].ranges = <<[anchor |-> 0, head |-> 0], [anchor |-> 2, head |-> 2]>>

\* the span of the focused view's primary range before the last event
C29_Span ==
    range_to(Selection_primary(mouse_event.before.selection[mouse_event.before.focus])) -
    range_from(Selection_primary(mouse_event.before.selection[mouse_event.before.focus]))

\* C29: with middle-click-paste off a left-button-up and a middle-button-up
\* are Ignored, change nothing and run no command; with it on a
\* left-button-up copies the primary selection when its span is greater than
\* 1 and is otherwise Ignored and copies nothing.
C29_ClipboardGating ==
    /\ (mouse_event.kind \in {"UpLeft", "UpMiddle"} /\ ~mouse_event.before.middle_click_paste) =>
          /\ mouse_event.result = "Ignored"
          /\ mouse_event.executed = <<>>
          /\ tree = mouse_event.before
    /\ (mouse_event.kind = "UpLeft" /\ mouse_event.before.middle_click_paste) =>
          /\ tree = mouse_event.before
          /\ C29_Span > 1 =>
                /\ mouse_event.executed = <<"yank_main_selection_to_primary_clipboard">>
                /\ mouse_event.result = "Consumed"
          /\ C29_Span <= 1 =>
                /\ mouse_event.executed = <<>>
                /\ mouse_event.result = "Ignored"

\* C29 witness: with middle-click-paste on, the button was released over a
\* selection of span 1 and nothing was copied.
C29_Witness ==
    /\ mouse_event.kind = "UpLeft"
    /\ mouse_event.before.middle_click_paste
    /\ C29_Span = 1
    /\ mouse_event.executed = <<>>
    /\ mouse_event.result = "Ignored"

C13_AtEndOfText(i) ==
    /\ frame.doc.selection[i].anchor = frame.doc.selection[i].head
    /\ frame.doc.selection[i].head = len_chars(frame.doc.text)

CursorScopes == {"ui.cursor", "ui.cursor.insert", "ui.cursor.select", "ui.cursor.primary"}

\* C13: a zero-width range at the end of the text adds exactly one span, the
\* cursor span [head, head + 1), and no selection span; it adds nothing when
\* it is the primary range and the cursor kind is not Block.
C13_EndOfTextCursorSpan ==
    frame.op = "doc_selection_highlights" =>
        /\ frame.spans = Flatten(frame.pushed)
        /\ \A i \in 1 .. Len(frame.doc.selection) :
              C13_AtEndOfText(i) =>
                 IF i = frame.doc.primary_idx /\ frame.cursorkind # "Block"
                 THEN frame.pushed[i] = <<>>
                 ELSE /\ Len(frame.pushed[i]) = 1
                      /\ frame.pushed[i][1][2] = len_chars(frame.doc.text)
                      /\ frame.pushed[i][1][3] = len_chars(frame.doc.text) + 1
                      /\ "ui.cursor" \in frame.theme =>
                            frame.pushed[i][1][1] \in CursorScopes

\* C13 witness: a secondary range at the end of a text left its cursor span
\* after the spans of the primary range.
C13_Witness ==
    /\ frame.op = "doc_selection_highlights"
    /\ Len(frame.doc.selection) = 2
    /\ frame.doc.primary_idx = 1
    /\ frame.cursorkind = "Bar"
    /\ C13_AtEndOfText(2)
    /\ frame.doc.text # <<>>
    /\ frame.spans[Len(frame.spans)] =
          <<"ui.cursor", len_chars(frame.doc.text), len_chars(frame.doc.text) + 1>>

\* range i of the last call's selection, widened to one cluster if empty
C30_Range(i) == min_width_1(frame.doc.selection[i], frame.doc.text)

\* the positions [start, end) of the spans pushed for range i
C30_Pushed(i) ==
    [k \in 1 .. Len(frame.pushed[i]) |-> <<frame.pushed[i][k][2], frame.pushed[i][k][3]>>]

\* the cursor of range i is drawn as a span
C30_CursorDrawn(i) == i # frame.doc.primary_idx \/ frame.cursorkind = "Block"

\* the spans of the last call are in ascending order and do not overlap
C30_Ascending ==
    \A k \in 1 .. Len(frame.spans) :
        /\ frame.spans[k][2] <= frame.spans[k][3]
        /\ k < Len(frame.spans) => frame.spans[k][3] <= frame.spans[k + 1][2]

\* C30 as stated: every range but a zero-width one at the end of the text
\* pushes its selection span and its cursor span, selection [anchor, g) then
\* cursor [g, head) when forward, cursor [head, g') then selection
\* [g', anchor) when reverse, g and g' the cluster boundaries next to head;
\* the spans ascend, do not overlap and those of a range cover it exactly
\* (an empty range counting as the cluster after it).
C30_SpanEmission ==
    frame.op = "doc_selection_highlights" =>
        /\ C30_Ascending
        /\ \A i \in 1 .. Len(frame.doc.selection) :
              ~C13_AtEndOfText(i) =>
                 /\ frame.doc.selection[i].head > frame.doc.selection[i].anchor =>
                       C30_Pushed(i) =
                          << <<frame.doc.selection[i].anchor,
                               prev_grapheme_boundary(frame.doc.text,
                                                      frame.doc.selection[i].head)>>,
                             <<prev_grapheme_boundary(frame.doc.text,
                                                      frame.doc.selection[i].head),
                               frame.doc.selection[i].head>> >>
                 /\ frame.doc.selection[i].head < frame.doc.selection[i].anchor =>
                       C30_Pushed(i) =
                          << <<frame.doc.selection[i].head,
                               next_grapheme_boundary(frame.doc.text,
                                                      frame.doc.selection[i].head)>>,
                             <<next_grapheme_boundary(frame.doc.text,
                                                      frame.doc.selection[i].head),
                               frame.doc.selection[i].anchor>> >>
                 /\ Len(frame.pushed[i]) = 2
                 /\ C30_Pushed(i)[1][1] = range_from(C30_Range(i))
                 /\ C30_Pushed(i)[1][2] = C30_Pushed(i)[2][1]
                 /\ C30_Pushed(i)[2][2] = range_to(C30_Range(i))

\* C30 amended: the cursor span is pushed only for a range that is not
\* primary or under a Block cursor; an empty range counts as the cluster
\* after it; the selection span is [anchor, g) before the cursor span [g, head)
\* when forward and [g', anchor) after the cursor span [head, g') when
\* reverse; the spans ascend and do not overlap, and with the cursor drawn
\* the spans of a range cover it exactly.
C30_SpanEmissionDrawn ==
    frame.op = "doc_selection_highlights" =>
        /\ C30_Ascending
        /\ \A i \in 1 .. Len(frame.doc.selection) :
              ~C13_AtEndOfText(i) =>
                 /\ C30_Range(i).head > C30_Range(i).anchor =>
                       C30_Pushed(i) =
                          << <<C30_Range(i).anchor,
                               prev_grapheme_boundary(frame.doc.text, C30_Range(i).head)>> >>
                          \o (IF C30_CursorDrawn(i)
                              THEN << <<prev_grapheme_boundary(frame.doc.text,
                                                               C30_Range(i).head),
                                        C30_Range(i).head>> >>
                              ELSE <<>>)
                 /\ C30_Range(i).head < C30_Range(i).anchor =>
                       C30_Pushed(i) =
                          (IF C30_CursorDrawn(i)
                           THEN << <<C30_Range(i).head,
                                     next_grapheme_boundary(frame.doc.text,
                                                            C30_Range(i).head)>> >>
                           ELSE <<>>)
                          \o << <<next_grapheme_boundary(frame.doc.text, C30_Range(i).head),
                                  C30_Range(i).anchor>> >>
                 /\ C30_CursorDrawn(i) =>
                       /\ Len(frame.pushed[i]) = 2
                       /\ C30_Pushed(i)[1][1] = range_from(C30_Range(i))
                       /\ C30_Pushed(i)[1][2] = C30_Pushed(i)[2][1]
                       /\ C30_Pushed(i)[2][2] = range_to(C30_Range(i))

\* C30 witness: a forward and a reverse range over two-char clusters, both
\* with their cursor drawn.
C30_Witness ==
    /\ frame.op = "doc_selection_highlights"
    /\ frame.doc.text = <<"e'", "e'">>
    /\ frame.cursorkind = "Block"
    /\ frame.doc.selection = <<[anchor |-> 0, head |-> 2], [anchor |-> 4, head |-> 2]>>
    /\ C30_Pushed(1) = << <<0, 0>>, <<0, 2>> >>
    /\ C30_Pushed(2) = << <<2, 4>>, <<4, 4>> >>

(***************************************************************************)
(* Claims about the grid renderer.                                         *)
(***************************************************************************)
\* C11: render_text_highlights writes no cell at a visual line at or beyond
\* the viewport height, and meets no cluster there: it stops as soon as the
\* line count reaches the height.
C11_VerticalClipping ==
    frame.op = "render_text_highlights" =>
        /\ \A cell \in frame.out.cells :
              cell[2] < frame.view.viewport.y + frame.view.viewport.height
        /\ \A i \in 1 .. Len(frame.out.steps) :
              frame.out.steps[i].line < frame.view.viewport.height

\* C12: within a line the visual column advances by the display width of
\* each cluster, written or not, a tab by tab_width, and no cell is written
\* whose visual column is outside [offset.col, offset.col + viewport.width).
C12_HorizontalClipping ==
    frame.op = "render_text_highlights" =>
        /\ \A i \in 1 .. Len(frame.out.steps) - 1 :
              frame.out.steps[i].grapheme # "\n" =>
                 /\ frame.out.steps[i + 1].visual_x =
                       frame.out.steps[i].visual_x + frame.out.steps[i].width
                 /\ frame.out.steps[i].grapheme = "\t" =>
                       frame.out.steps[i].width = frame.view.doc.tab_width
        /\ \A cell \in frame.out.cells :
              /\ cell[1] - frame.view.viewport.x + frame.view.offset.col
                    >= frame.view.offset.col
              /\ cell[1] - frame.view.viewport.x + frame.view.offset.col
                    < frame.view.offset.col + frame.view.viewport.width

(***************************************************************************)
(* Claims about the highlight compositor.                                  *)
(***************************************************************************)
\* the nesting depth after the first k events of the last composed stream
C14_Depth(k) ==
    Cardinality({j \in 1 .. k : frame.highlights[j].kind = "HighlightStart"})
    - Cardinality({j \in 1 .. k : frame.highlights[j].kind = "HighlightEnd"})

\* the text runs of the last composed stream that cover char index idx
C14_Runs(idx) ==
    {j \in 1 .. Len(frame.highlights) :
        /\ frame.highlights[j].kind = "Source"
        /\ frame.highlights[j].start <= idx
        /\ idx < frame.highlights[j].end}

\* C14: in the stream render_view builds from the syntax, diagnostic and (in
\* the focused view) selection spans, the nesting depth is never negative and
\* every char index of the viewport's range is covered by exactly one text
\* run.
C14_MergedStreamWellFormed ==
    frame.op = "render_view" =>
        /\ \A k \in 0 .. Len(frame.highlights) : C14_Depth(k) >= 0
        /\ \A idx \in frame.range.start .. frame.range.end - 1 :
              Cardinality(C14_Runs(idx)) = 1

\* C14 witness: a focused view with a diagnostic and a syntax node whose
\* stream nests a selection scope inside another scope.
C14_Witness ==
    /\ frame.op = "render_view"
    /\ frame.is_focused
    /\ frame.doc.diagnostics # <<>>
    /\ frame.doc.syntax # None
    /\ frame.range.end > frame.range.start
    /\ \E k \in 1 .. Len(frame.highlights) : C14_Depth(k) >= 2

====
